---- MODULE Spec2Model ----
(***************************************************************************)
(* Load elimination (src/compiler/load-elimination.cc): the alias oracle,  *)
(* the abstract state (AbstractElements, AbstractField, AbstractState),    *)
(* the per-node state table and the reducer with its loop summarizer.      *)
(*                                                                         *)
(* Zone-allocated abstract objects are records that carry the identity of  *)
(* their allocation in the field "id"; a pointer comparison of the source  *)
(* is a comparison of ids, and id 0 is the null pointer.  Every operation  *)
(* that allocates takes the next free id z and returns [p, z]: the object  *)
(* it returns and the next free id after its allocations.                  *)
(***************************************************************************)
EXTENDS Integers, Sequences, FiniteSets, TLC

VARIABLES
  graph,        \* effect node id -> node record (operator, inputs); rewritten by Replace
  node_states,  \* LoadElimination::node_states_: effect node id -> AbstractState (id 0: none)
  zone,         \* next free allocation id of the pass's zone
  last,         \* the last reduction: node, incoming effect, pre-state, result
  lat           \* the abstract-state operations applied directly (SpecLattice)

vars == <<graph, node_states, zone, last, lat>>

(***************************************************************************)
(* Program constants.                                                      *)
(***************************************************************************)
kMaxTrackedFields == 32
kMaxTrackedElements == 8
kPointerSize == 8

(***************************************************************************)
(* Bounds of the model.                                                    *)
(***************************************************************************)
MaxLatOps == 3
MaxChain == 3
MaxLoopPre == 2
MaxLoopBody == 1
MaxRecipe == 3
MaxRingFill == 10
MaxRingOps == 2
MaxOrderBody == 3
MaxUpdateOps == 3
MaxReports == 2
MaxDriverBody == 1

(***************************************************************************)
(* Value nodes: the handles the pass compares.  Each has an opcode, a      *)
(* static type (a set of runtime values), its first input (FinishRegion)   *)
(* and the dead flag.  NULL is the null node.                              *)
(***************************************************************************)
NULL == "null"

ValueNode(op, type, in0, dead) == [op |-> op, type |-> type, in0 |-> in0, dead |-> dead]

\* o, o2: parameters whose types overlap (may alias); a: an allocation and fr its
\* FinishRegion; fro, frr: the FinishRegions of o and of fr; p: a parameter of a type disjoint from the others (no alias);
\* m1, m2: maps; fam, fdam: the fixed-array and fixed-double-array map constants;
\* v1, v2: values (v1's type is narrower); vd: a dead value node; i, j: indices
\* that may alias; c0, c1: constant indices that alias no other index.
ValueNodeTable ==
  [o    |-> ValueNode("Parameter", {1, 2}, NULL, FALSE),
   o2   |-> ValueNode("Parameter", {2, 3}, NULL, FALSE),
   a    |-> ValueNode("Allocate", {1, 2}, NULL, FALSE),
   fr   |-> ValueNode("FinishRegion", {1, 2}, "a", FALSE),
   fro  |-> ValueNode("FinishRegion", {1, 2}, "o", FALSE),
   frr  |-> ValueNode("FinishRegion", {1, 2}, "fr", FALSE),
   p    |-> ValueNode("Parameter", {4}, NULL, FALSE),
   m1   |-> ValueNode("HeapConstant", {10}, NULL, FALSE),
   m2   |-> ValueNode("HeapConstant", {11}, NULL, FALSE),
   fam  |-> ValueNode("HeapConstant", {12}, NULL, FALSE),
   fdam |-> ValueNode("HeapConstant", {13}, NULL, FALSE),
   v1   |-> ValueNode("Parameter", {20}, NULL, FALSE),
   v2   |-> ValueNode("Parameter", {20, 21}, NULL, FALSE),
   vd   |-> ValueNode("Dead", {20}, NULL, TRUE),
   i    |-> ValueNode("Parameter", {30, 31}, NULL, FALSE),
   j    |-> ValueNode("Parameter", {30, 31}, NULL, FALSE),
   c0   |-> ValueNode("NumberConstant", {32}, NULL, FALSE),
   c1   |-> ValueNode("NumberConstant", {33}, NULL, FALSE)]

ValueNodes == DOMAIN ValueNodeTable

(***************************************************************************)
(* Effect nodes are the nodes of the graph, which holds their operator and *)
(* inputs.                                                                 *)
(***************************************************************************)
IsEffectNode(n) == n \in DOMAIN graph

Opcode(n) == IF IsEffectNode(n) THEN graph[n].op ELSE ValueNodeTable[n].op

TypeOf(n) == IF IsEffectNode(n) THEN graph[n].type ELSE ValueNodeTable[n].type

InputAt0(n) == IF IsEffectNode(n) THEN graph[n].object ELSE ValueNodeTable[n].in0

IsDead(n) == IF IsEffectNode(n) THEN graph[n].removed ELSE ValueNodeTable[n].dead

\* Type::Maybe: the two types share a value.
Maybe(s, t) == s \cap t # {}

\* Type::Is: subtype.
Is(s, t) == s \subseteq t

(***************************************************************************)
(* The alias oracle.                                                       *)
(***************************************************************************)
kNoAlias == "kNoAlias"
kMayAlias == "kMayAlias"
kMustAlias == "kMustAlias"

RECURSIVE QueryAlias(_, _)
QueryAlias(a, b) ==
  IF a = b THEN kMustAlias
  ELSE IF ~Maybe(TypeOf(a), TypeOf(b)) THEN kNoAlias
  ELSE IF Opcode(b) = "Allocate" /\ Opcode(a) \in {"Allocate", "HeapConstant", "Parameter"}
    THEN kNoAlias
  ELSE IF Opcode(b) = "Allocate" /\ Opcode(a) = "FinishRegion"
    THEN QueryAlias(InputAt0(a), b)
  ELSE IF Opcode(a) = "Allocate" /\ Opcode(b) \in {"HeapConstant", "Parameter"}
    THEN kNoAlias
  ELSE IF Opcode(a) = "Allocate" /\ Opcode(b) = "FinishRegion"
    THEN QueryAlias(a, InputAt0(b))
  ELSE kMayAlias

MayAlias(a, b) == QueryAlias(a, b) # kNoAlias

MustAlias(a, b) == QueryAlias(a, b) = kMustAlias

(***************************************************************************)
(* AbstractElements: a ring of kMaxTrackedElements (object, index, value)  *)
(* entries and the insert cursor next_index_.  An entry with a null object *)
(* is empty.                                                               *)
(***************************************************************************)
Element(object, index, value) == [object |-> object, index |-> index, value |-> value]

NoElement == Element(NULL, NULL, NULL)

ElementIndices == 1..kMaxTrackedElements

EmptyRing == [x \in ElementIndices |-> NoElement]

\* The null AbstractElements pointer.
NullElements == [id |-> 0, elements |-> EmptyRing, next_index |-> 0]

\* A new ring, allocated as z, filled from position 0 with the entries kept
\* (elements_[next_index_++] = element), the cursor taken modulo the capacity.
\* An entry past the end of the array is not part of the ring.  top is the
\* number of positions the operation wrote from position 0 on (for an insert
\* at the cursor: the position written, plus one).
RingOf(kept, z) ==
  [p |-> [id |-> z,
          elements |-> [x \in ElementIndices |->
                          IF x <= Len(kept) THEN kept[x] ELSE NoElement],
          next_index |-> Len(kept) % kMaxTrackedElements],
   z |-> z + 1,
   top |-> Len(kept)]

\* RingOf without the cursor taken modulo the capacity.
RingOfUnwrapped(kept, z) ==
  [p |-> [id |-> z,
          elements |-> [x \in ElementIndices |->
                          IF x <= Len(kept) THEN kept[x] ELSE NoElement],
          next_index |-> Len(kept)],
   z |-> z + 1,
   top |-> Len(kept)]

Min(S) == CHOOSE x \in S : \A y \in S : x <= y

\* The value of the first of the entries hits, none if there is none.
FirstValue(this, hits) == IF hits = {} THEN NULL ELSE this.elements[Min(hits)].value

ElementsLookup(this, object, index) ==
  FirstValue(this, {x \in ElementIndices :
                      /\ this.elements[x].object # NULL
                      /\ MustAlias(object, this.elements[x].object)
                      /\ MustAlias(index, this.elements[x].index)})

\* ElementsKill without that->next_index_ %= arraysize(elements_).
ElementsKillWithoutWrap(this, object, index, z) ==
  IF \E x \in ElementIndices :
       /\ this.elements[x].object # NULL
       /\ MayAlias(object, this.elements[x].object)
  THEN RingOfUnwrapped(SelectSeq(this.elements,
                                 LAMBDA e : /\ e.object # NULL
                                            /\ \/ ~MayAlias(object, e.object)
                                               \/ ~MayAlias(index, e.index)),
                       z)
  ELSE [p |-> this, z |-> z, top |-> 0]

ElementsKill(this, object, index, z) ==
  IF \E x \in ElementIndices :
       /\ this.elements[x].object # NULL
       /\ MayAlias(object, this.elements[x].object)
  THEN RingOf(SelectSeq(this.elements,
                        LAMBDA e : /\ e.object # NULL
                                   /\ \/ ~MayAlias(object, e.object)
                                      \/ ~MayAlias(index, e.index)),
              z)
  ELSE [p |-> this, z |-> z, top |-> 0]

\* The ring k.p copied as a new ring with the entry at the cursor, which
\* advances modulo the capacity.
InsertElement(k, object, index, value) ==
  [p |-> [id |-> k.z,
          elements |-> [x \in ElementIndices |->
                          IF x = k.p.next_index + 1
                          THEN Element(object, index, value)
                          ELSE k.p.elements[x]],
          next_index |-> (k.p.next_index + 1) % kMaxTrackedElements],
   z |-> k.z + 1,
   top |-> IF k.top > k.p.next_index + 1 THEN k.top ELSE k.p.next_index + 1]

\* Extend: Kill(object, index), then the new entry at the cursor.
ElementsExtend(this, object, index, value, z) ==
  InsertElement(ElementsKill(this, object, index, z), object, index, value)

\* AbstractElements(object, index, value, zone): a ring of one entry.
NewElements(object, index, value, z) ==
  [p |-> [id |-> z,
          elements |-> [x \in ElementIndices |->
                          IF x = 1 THEN Element(object, index, value)
                          ELSE NoElement],
          next_index |-> 1],
   z |-> z + 1,
   top |-> 1]

ElementsEquals(this, that) ==
  \/ this.id = that.id
  \/ /\ \A x \in ElementIndices :
          this.elements[x].object # NULL =>
            \E y \in ElementIndices : that.elements[y] = this.elements[x]
     /\ \A x \in ElementIndices :
          that.elements[x].object # NULL =>
            \E y \in ElementIndices : this.elements[y] = that.elements[x]

\* The entries of this from position x on that are also in that, once per
\* matching entry of that, in the order of this.
RECURSIVE MergeHits(_, _, _)
MergeHits(this, that, x) ==
  IF x > kMaxTrackedElements THEN <<>>
  ELSE IF this.elements[x].object = NULL THEN MergeHits(this, that, x + 1)
  ELSE [c \in 1..Cardinality({y \in ElementIndices : that.elements[y] = this.elements[x]})
          |-> this.elements[x]] \o MergeHits(this, that, x + 1)

\* ElementsMerge without the intersection: this is returned as it is.
ElementsMergeKeepThis(this, that, z) == [p |-> this, z |-> z, top |-> 0]

ElementsMerge(this, that, z) ==
  IF ElementsEquals(this, that) THEN [p |-> this, z |-> z, top |-> 0]
  ELSE RingOf(MergeHits(this, that, 1), z)

\* The facts of a ring, as a set.
ElementFacts(this) ==
  {this.elements[x] : x \in {y \in ElementIndices : this.elements[y].object # NULL}}

(***************************************************************************)
(* AbstractField: the facts (object, value) of one field slot              *)
(* (info_for_node_, a map from object to value).                           *)
(***************************************************************************)
NullField == [id |-> 0, info |-> {}]

\* The value of the first of the pairs hits, none if there is none.
FirstPair(hits) == IF hits = {} THEN NULL ELSE (CHOOSE pair \in hits : TRUE)[2]

\* The first pair, in the order of the map, whose key must-aliases object.
FieldLookup(this, object) ==
  FirstPair({pair \in this.info : MustAlias(object, pair[1])})

\* FieldKill that always allocates the field it returns.
FieldKillCopying(this, object, z) ==
  [p |-> [id |-> z, info |-> {pair \in this.info : ~MayAlias(object, pair[1])}], z |-> z + 1]

FieldKill(this, object, z) ==
  IF \E pair \in this.info : MayAlias(object, pair[1])
  THEN [p |-> [id |-> z, info |-> {pair \in this.info : ~MayAlias(object, pair[1])}],
        z |-> z + 1]
  ELSE [p |-> this, z |-> z]

\* A new field with the pairs of k.p and the additional pair.
InsertPair(k, object, value) ==
  [p |-> [id |-> k.z, info |-> k.p.info \cup {<<object, value>>}], z |-> k.z + 1]

\* Extend: Kill(object), then a new field with the additional pair.
FieldExtend(this, object, value, z) ==
  InsertPair(FieldKill(this, object, z), object, value)

\* AbstractField(object, value, zone): a field of one pair.
NewField(object, value, z) ==
  [p |-> [id |-> z, info |-> {<<object, value>>}], z |-> z + 1]

FieldEquals(this, that) == this.id = that.id \/ this.info = that.info

FieldMerge(this, that, z) ==
  IF FieldEquals(this, that) THEN [p |-> this, z |-> z]
  ELSE [p |-> [id |-> z, info |-> this.info \cap that.info], z |-> z + 1]

(***************************************************************************)
(* AbstractState: the elements (or null) and one AbstractField (or null)   *)
(* per tracked field slot.                                                 *)
(***************************************************************************)
FieldIndices == 0..(kMaxTrackedFields - 1)

\* The null AbstractState pointer: the node has no recorded state.
NullState == [id |-> 0, elements |-> NullElements, fields |-> [x \in FieldIndices |-> NullField]]

\* LoadElimination::empty_state(): the one empty state of the pass, allocated
\* with it.
empty_state == [id |-> 1, elements |-> NullElements, fields |-> [x \in FieldIndices |-> NullField]]

\* No copy: the state itself.
StateCopyOfNothing(this, z) == [p |-> this, z |-> z]

\* new (zone) AbstractState(*this)
StateCopy(this, z) == [p |-> [this EXCEPT !.id = z], z |-> z + 1]

\* Equals that compares the two pointers only.
StateEqualsByPointer(this, that) == this.id = that.id

StateEquals(this, that) ==
  /\ IF this.elements.id # 0
       THEN that.elements.id # 0 /\ ElementsEquals(that.elements, this.elements)
       ELSE that.elements.id = 0
  /\ \A x \in FieldIndices :
       IF this.fields[x].id # 0
         THEN that.fields[x].id # 0 /\ FieldEquals(that.fields[x], this.fields[x])
         ELSE that.fields[x].id = 0

\* this with the elements e.p, or the field e.p in slot x, put in place.
SetElements(this, e) == [p |-> [this EXCEPT !.elements = e.p], z |-> e.z]

SetField(this, x, f) == [p |-> [this EXCEPT !.fields[x] = f.p], z |-> f.z]

\* The field slots x..kMaxTrackedFields-1 of Merge, in order, on s.p.
RECURSIVE MergeFields(_, _, _)
MergeFields(s, that, x) ==
  IF x >= kMaxTrackedFields THEN s
  ELSE IF s.p.fields[x].id = 0 THEN MergeFields(s, that, x + 1)
  ELSE IF that.fields[x].id # 0
    THEN MergeFields(SetField(s.p, x, FieldMerge(s.p.fields[x], that.fields[x], s.z)),
                     that, x + 1)
    ELSE MergeFields(SetField(s.p, x, [p |-> NullField, z |-> s.z]), that, x + 1)

\* StateMerge that keeps the elements of this when that has none.
StateMergeKeepElements(this, that, z) ==
  MergeFields(IF this.elements.id = 0 \/ that.elements.id = 0 THEN [p |-> this, z |-> z]
              ELSE SetElements(this, ElementsMerge(that.elements, this.elements, z)),
              that, 0)

\* Merge changes this in place: the result is this (the same id) with the
\* merged components.
StateMerge(this, that, z) ==
  MergeFields(IF this.elements.id = 0 THEN [p |-> this, z |-> z]
              ELSE IF that.elements.id # 0
                THEN SetElements(this, ElementsMerge(that.elements, this.elements, z))
                ELSE SetElements(this, [p |-> NullElements, z |-> z]),
              that, 0)

LookupElement(this, object, index) ==
  IF this.elements.id # 0 THEN ElementsLookup(this.elements, object, index) ELSE NULL

\* The copy of this, allocated as z, takes the elements (the field of slot x).
\* AddElement that inserts into the ring as it is.
AddElementWithoutKill(this, object, index, value, z) ==
  SetElements([this EXCEPT !.id = z],
              IF this.elements.id # 0
                THEN InsertElement([p |-> this.elements, z |-> z + 1, top |-> 0],
                                   object, index, value)
                ELSE NewElements(object, index, value, z + 1))

AddElement(this, object, index, value, z) ==
  SetElements([this EXCEPT !.id = z],
              IF this.elements.id # 0
                THEN ElementsExtend(this.elements, object, index, value, z + 1)
                ELSE NewElements(object, index, value, z + 1))

\* this, or a copy of it with the elements k.p when Kill returned another ring.
KilledElements(this, k) ==
  IF this.elements.id # k.p.id
    THEN [p |-> [this EXCEPT !.id = k.z, !.elements = k.p], z |-> k.z + 1]
    ELSE [p |-> this, z |-> k.z]

KillElement(this, object, index, z) ==
  IF this.elements.id # 0
    THEN KilledElements(this, ElementsKill(this.elements, object, index, z))
    ELSE [p |-> this, z |-> z]

\* AddField that leaves a field that is there as it is.
AddFieldUnextended(this, object, index, value, z) ==
  SetField([this EXCEPT !.id = z], index,
           IF this.fields[index].id # 0
             THEN [p |-> this.fields[index], z |-> z + 1]
             ELSE NewField(object, value, z + 1))

AddField(this, object, index, value, z) ==
  SetField([this EXCEPT !.id = z], index,
           IF this.fields[index].id # 0
             THEN FieldExtend(this.fields[index], object, value, z + 1)
             ELSE NewField(object, value, z + 1))

\* this, or a copy of it with the field k.p when Kill returned another field.
KilledField(this, index, k) ==
  IF this.fields[index].id # k.p.id
    THEN [p |-> [this EXCEPT !.id = k.z, !.fields[index] = k.p], z |-> k.z + 1]
    ELSE [p |-> this, z |-> k.z]

KillField(this, object, index, z) ==
  IF this.fields[index].id # 0
    THEN KilledField(this, index, FieldKill(this.fields[index], object, z))
    ELSE [p |-> this, z |-> z]

LookupField(this, object, index) ==
  IF this.fields[index].id # 0 THEN FieldLookup(this.fields[index], object) ELSE NULL

\* The facts a state holds: (object, index, value) triples of the elements and
\* (slot, object, value) facts of the fields, by node identity.
StateElementFacts(this) == IF this.elements.id # 0 THEN ElementFacts(this.elements) ELSE {}

StateFieldFacts(this) ==
  UNION {{<<x, pair[1], pair[2]>> : pair \in this.fields[x].info} : x \in FieldIndices}

\* The operations on a state s.p with the next free id s.z.
AddFieldZ(s, object, index, value) == AddField(s.p, object, index, value, s.z)

KillFieldZ(s, object, index) == KillField(s.p, object, index, s.z)

AddElementZ(s, object, index, value) == AddElement(s.p, object, index, value, s.z)

KillElementZ(s, object, index) == KillElement(s.p, object, index, s.z)

(***************************************************************************)
(* The slot of a field access: FieldIndexOf.                               *)
(***************************************************************************)
\* MachineType::PointerRepresentation()
PointerRepresentation == IF kPointerSize = 4 THEN "kWord32" ELSE "kWord64"

FieldIndexOf(rep, offset) ==
  IF rep \in {"kWord32", "kWord64"} /\ rep # PointerRepresentation THEN -1
  ELSE IF rep \in {"kWord8", "kWord16", "kFloat32"} THEN -1
  ELSE IF rep \in {"kFloat64", "kSimd128"} THEN -1
  ELSE IF offset \div kPointerSize >= kMaxTrackedFields THEN -1
  ELSE offset \div kPointerSize

(***************************************************************************)
(* The reducer.  A handler returns what it does: the Reduction (kind and   *)
(* replacement), whether it called ReplaceWithValue, whether it wrote the  *)
(* node's entry of node_states_ and the state it wrote, and the next free  *)
(* allocation id.                                                          *)
(***************************************************************************)
NoChange == [kind |-> "NoChange", replacement |-> NULL, rwv |-> FALSE,
             set |-> FALSE, state |-> NullState, z |-> 0]

\* Replace that records the empty state for the node.
ReplaceRecording(replacement, rwv) ==
  [kind |-> "Replace", replacement |-> replacement, rwv |-> rwv,
   set |-> TRUE, state |-> empty_state, z |-> zone]

Replace(replacement, rwv) ==
  [kind |-> "Replace", replacement |-> replacement, rwv |-> rwv,
   set |-> FALSE, state |-> NullState, z |-> 0]

Changed(state, z) ==
  [kind |-> "Changed", replacement |-> NULL, rwv |-> FALSE,
   set |-> TRUE, state |-> state, z |-> z]

\* AbstractStateForEffectNodes::Get
Get(node) == IF node \in DOMAIN node_states THEN node_states[node] ELSE NullState

\* NodeProperties::GetEffectInput(node, x), x from 0
GetEffectInput(node, x) == graph[node].eff[x + 1]

EffectInputCount(node) == Len(graph[node].eff)

\* PreState that takes an absent state for the empty state.
PreStateOrEmpty(node) ==
  IF Get(GetEffectInput(node, 0)).id = 0 THEN empty_state ELSE Get(GetEffectInput(node, 0))

\* The state of the effect input of a node (of its first one).
PreState(node) == Get(GetEffectInput(node, 0))

\* UpdateState that compares the states as pointers only.
UpdateStateByPointer(node, state, z) ==
  IF state.id # Get(node).id THEN Changed(state, z) ELSE NoChange

UpdateState(node, state, z) ==
  IF state.id # Get(node).id /\ (Get(node).id = 0 \/ ~StateEquals(state, Get(node)))
    THEN Changed(state, z)
    ELSE NoChange

UpdateStateZ(node, s) == UpdateState(node, s.p, s.z)

\* CheckMapsWith that never records the map of a check with one map.
CheckMapsWithoutRecord(node, state, object_map) ==
  IF object_map # NULL /\ \E x \in DOMAIN graph[node].maps : graph[node].maps[x] = object_map
    THEN Replace(GetEffectInput(node, 0), FALSE)
    ELSE UpdateState(node, state, zone)

\* ReduceCheckMaps once the state and the known map of the object are looked up.
CheckMapsWith(node, state, object_map) ==
  IF object_map # NULL /\ \E x \in DOMAIN graph[node].maps : graph[node].maps[x] = object_map
    THEN Replace(GetEffectInput(node, 0), FALSE)
  ELSE IF Len(graph[node].maps) = 1
    THEN UpdateStateZ(node, AddField(state, graph[node].object, 0, graph[node].maps[1], zone))
  ELSE UpdateState(node, state, zone)

ReduceCheckMaps(node) ==
  IF PreState(node).id = 0 THEN NoChange
  ELSE CheckMapsWith(node, PreState(node), LookupField(PreState(node), graph[node].object, 0))

ReduceEnsureWritableFastElements(node) ==
  IF PreState(node).id = 0 THEN NoChange
  ELSE IF LookupField(PreState(node), graph[node].value, 0) = "fam"
    THEN Replace(graph[node].value, TRUE)
  ELSE UpdateStateZ(node,
         AddFieldZ(KillFieldZ(AddField(PreState(node), node, 0, "fam", zone),
                              graph[node].object, 2),
                   graph[node].object, 2, node))

\* Kill the previous Array::length on object if the operator has kArrayObject.
KillLength(node, s) ==
  IF "kArrayObject" \in graph[node].flags THEN KillFieldZ(s, graph[node].object, 3) ELSE s

ReduceMaybeGrowFastElements(node) ==
  IF PreState(node).id = 0 THEN NoChange
  ELSE UpdateStateZ(node,
         AddFieldZ(KillFieldZ(KillLength(node,
                                AddField(PreState(node), node, 0,
                                         IF "kDoubleElements" \in graph[node].flags
                                           THEN "fdam" ELSE "fam",
                                         zone)),
                              graph[node].object, 2),
                   graph[node].object, 2, node))

\* Kill the elements as well if the transition is slow.
KillSlow(node, s) ==
  IF "kSlowTransition" \in graph[node].flags THEN KillFieldZ(s, graph[node].object, 2) ELSE s

\* The target map recorded if the known map is the source map.
AddTarget(node, s, object_map) ==
  IF object_map # NULL /\ graph[node].maps[1] = object_map
    THEN AddFieldZ(s, graph[node].object, 0, graph[node].maps[2])
    ELSE s

\* ReduceTransitionElementsKind once the known map of the object is looked up.
TransitionWith(node, state, object_map) ==
  IF object_map # NULL /\ graph[node].maps[2] = object_map
    THEN Replace(GetEffectInput(node, 0), FALSE)
    ELSE UpdateStateZ(node,
           KillSlow(node, AddTarget(node, KillField(state, graph[node].object, 0, zone),
                                    object_map)))

ReduceTransitionElementsKind(node) ==
  IF PreState(node).id = 0 THEN NoChange
  ELSE TransitionWith(node, PreState(node),
                      LookupField(PreState(node), graph[node].object, 0))

\* LoadWith that never replaces the load.
LoadWithoutReplace(node, replacement, added) == UpdateStateZ(node, added)

\* A load once the known value is looked up: replaced by a known value that is
\* not dead and whose type is at least as good; else the load is the value
\* known from now on (added: the state with that fact).
LoadWith(node, replacement, added) ==
  IF replacement # NULL /\ ~IsDead(replacement) /\ Is(TypeOf(replacement), TypeOf(node))
    THEN Replace(replacement, TRUE)
    ELSE UpdateStateZ(node, added)

\* LoadFieldAt that does not record the load as the value of the field.
LoadFieldAtWithoutRecord(node, state, field_index) ==
  IF field_index >= 0
    THEN LoadWith(node, LookupField(state, graph[node].object, field_index),
                  [p |-> state, z |-> zone])
    ELSE UpdateState(node, state, zone)

LoadFieldAt(node, state, field_index) ==
  IF field_index >= 0
    THEN LoadWith(node, LookupField(state, graph[node].object, field_index),
                  AddField(state, graph[node].object, field_index, node, zone))
    ELSE UpdateState(node, state, zone)

ReduceLoadField(node) ==
  IF PreState(node).id = 0 THEN NoChange
  ELSE LoadFieldAt(node, PreState(node), FieldIndexOf(graph[node].rep, graph[node].offset))

\* StoreFieldAt without the test for a redundant store.
StoreFieldAtAlwaysRecords(node, state, field_index) ==
  IF field_index >= 0
    THEN UpdateStateZ(node,
           AddFieldZ(KillField(state, graph[node].object, field_index, zone),
                     graph[node].object, field_index, graph[node].value))
    ELSE UpdateState(node, empty_state, zone)

StoreFieldAt(node, state, field_index) ==
  IF field_index >= 0
    THEN IF LookupField(state, graph[node].object, field_index) = graph[node].value
           THEN Replace(GetEffectInput(node, 0), FALSE)
           ELSE UpdateStateZ(node,
                  AddFieldZ(KillField(state, graph[node].object, field_index, zone),
                            graph[node].object, field_index, graph[node].value))
    ELSE UpdateState(node, empty_state, zone)

ReduceStoreField(node) ==
  IF PreState(node).id = 0 THEN NoChange
  ELSE StoreFieldAt(node, PreState(node), FieldIndexOf(graph[node].rep, graph[node].offset))

ReduceLoadElement(node) ==
  IF PreState(node).id = 0 THEN NoChange
  ELSE LoadWith(node, LookupElement(PreState(node), graph[node].object, graph[node].index),
                AddElement(PreState(node), graph[node].object, graph[node].index, node, zone))

\* AddStored that records the new value whatever the representation.
AddStoredOfAnyRepresentation(node, s) ==
  AddElementZ(s, graph[node].object, graph[node].index, graph[node].value)

\* The new value recorded only if the store does not truncate it.
AddStored(node, s) ==
  IF graph[node].rep \in {"kFloat64", "kSimd128", "kTaggedSigned", "kTaggedPointer", "kTagged"}
    THEN AddElementZ(s, graph[node].object, graph[node].index, graph[node].value)
    ELSE s

ReduceStoreElement(node) ==
  IF PreState(node).id = 0 THEN NoChange
  ELSE IF LookupElement(PreState(node), graph[node].object, graph[node].index)
            = graph[node].value
    THEN Replace(GetEffectInput(node, 0), FALSE)
  ELSE UpdateStateZ(node,
         AddStored(node, KillElement(PreState(node), graph[node].object,
                                     graph[node].index, zone)))

ReduceStoreTypedElement(node) ==
  IF PreState(node).id = 0 THEN NoChange ELSE UpdateState(node, PreState(node), zone)

ReduceStart(node) == UpdateState(node, empty_state, zone)

\* ReduceOtherNode that propagates the state whatever the operator may write.
ReduceOtherNodePropagating(node) ==
  IF graph[node].eic = 1 /\ graph[node].eoc = 1
    THEN IF PreState(node).id = 0 THEN NoChange
         ELSE UpdateState(node, PreState(node), zone)
    ELSE NoChange

ReduceOtherNode(node) ==
  IF graph[node].eic = 1 /\ graph[node].eoc = 1
    THEN IF PreState(node).id = 0 THEN NoChange
         ELSE IF ~graph[node].nowrite THEN UpdateState(node, empty_state, zone)
         ELSE UpdateState(node, PreState(node), zone)
    ELSE NoChange

(***************************************************************************)
(* ComputeLoopState: the walk over the effect predecessors of the loop's   *)
(* back edges, from the queue and the visited set.                         *)
(***************************************************************************)
\* The opcodes of writers the walk knows; any other writer ends it with
\* empty_state().
LoopBails(current) ==
  /\ ~graph[current].nowrite
  /\ \/ graph[current].op \notin {"EnsureWritableFastElements", "MaybeGrowFastElements",
                                  "TransitionElementsKind", "StoreField", "StoreElement",
                                  "StoreBuffer", "StoreTypedElement"}
     \/ /\ graph[current].op = "StoreField"
        /\ FieldIndexOf(graph[current].rep, graph[current].offset) < 0

\* LoopKill without the case of StoreField.
LoopKillWithoutStoreField(current, s) ==
  IF graph[current].nowrite THEN s
  ELSE IF graph[current].op = "EnsureWritableFastElements"
    THEN KillFieldZ(s, graph[current].object, 2)
  ELSE IF graph[current].op = "MaybeGrowFastElements"
    THEN KillLength(current, KillFieldZ(s, graph[current].object, 2))
  ELSE IF graph[current].op = "TransitionElementsKind"
    THEN KillFieldZ(KillFieldZ(s, graph[current].object, 0), graph[current].object, 2)
  ELSE IF graph[current].op = "StoreElement"
    THEN KillElementZ(s, graph[current].object, graph[current].index)
  ELSE s

\* LoopKill without the case of StoreElement.
LoopKillWithoutStoreElement(current, s) ==
  IF graph[current].nowrite THEN s
  ELSE IF graph[current].op = "EnsureWritableFastElements"
    THEN KillFieldZ(s, graph[current].object, 2)
  ELSE IF graph[current].op = "MaybeGrowFastElements"
    THEN KillLength(current, KillFieldZ(s, graph[current].object, 2))
  ELSE IF graph[current].op = "TransitionElementsKind"
    THEN KillFieldZ(KillFieldZ(s, graph[current].object, 0), graph[current].object, 2)
  ELSE IF graph[current].op = "StoreField"
    THEN KillFieldZ(s, graph[current].object,
                    FieldIndexOf(graph[current].rep, graph[current].offset))
  ELSE s

\* What one visited node that does not end the walk kills in the state s.
LoopKill(current, s) ==
  IF graph[current].nowrite THEN s
  ELSE IF graph[current].op = "EnsureWritableFastElements"
    THEN KillFieldZ(s, graph[current].object, 2)
  ELSE IF graph[current].op = "MaybeGrowFastElements"
    THEN KillLength(current, KillFieldZ(s, graph[current].object, 2))
  ELSE IF graph[current].op = "TransitionElementsKind"
    THEN KillFieldZ(KillFieldZ(s, graph[current].object, 0), graph[current].object, 2)
  ELSE IF graph[current].op = "StoreField"
    THEN KillFieldZ(s, graph[current].object,
                    FieldIndexOf(graph[current].rep, graph[current].offset))
  ELSE IF graph[current].op = "StoreElement"
    THEN KillElementZ(s, graph[current].object, graph[current].index)
  ELSE s

RECURSIVE LoopWalk(_, _, _)
LoopWalk(queue, visited, s) ==
  IF queue = <<>> THEN s
  ELSE IF Head(queue) \in visited THEN LoopWalk(Tail(queue), visited, s)
  ELSE IF LoopBails(Head(queue)) THEN [p |-> empty_state, z |-> s.z]
  ELSE LoopWalk(Tail(queue) \o graph[Head(queue)].eff, visited \cup {Head(queue)},
                LoopKill(Head(queue), s))

ComputeLoopState(node, state, z) ==
  LoopWalk(Tail(graph[node].eff), {node}, [p |-> state, z |-> z])

\* The merge of the states of the effect inputs x.. into s.p, in order.
\* MergeInputs that merges nothing: the copy of the first input's state.
MergeInputsOfNone(node, s, x) == s

RECURSIVE MergeInputs(_, _, _)
MergeInputs(node, s, x) ==
  IF x >= EffectInputCount(node) THEN s
  ELSE MergeInputs(node, StateMerge(s.p, Get(GetEffectInput(node, x)), s.z), x + 1)

\* The merge of the states of the inputs that have one.
RECURSIVE MergePresentInputs(_, _, _)
MergePresentInputs(node, s, x) ==
  IF x >= EffectInputCount(node) THEN s
  ELSE IF Get(GetEffectInput(node, x)).id = 0 THEN MergePresentInputs(node, s, x + 1)
  ELSE MergePresentInputs(node, StateMerge(s.p, Get(GetEffectInput(node, x)), s.z), x + 1)

\* ReduceEffectPhi that does not wait for the states of all inputs of a Merge.
ReduceEffectPhiOfPresentInputs(node) ==
  IF PreState(node).id = 0 THEN NoChange
  ELSE IF graph[node].ctrl = "Loop"
    THEN UpdateStateZ(node, ComputeLoopState(node, PreState(node), zone))
  ELSE UpdateStateZ(node, MergePresentInputs(node, StateCopy(PreState(node), zone), 1))

ReduceEffectPhi(node) ==
  IF PreState(node).id = 0 THEN NoChange
  ELSE IF graph[node].ctrl = "Loop"
    THEN UpdateStateZ(node, ComputeLoopState(node, PreState(node), zone))
  ELSE IF \E x \in 1..(EffectInputCount(node) - 1) : Get(GetEffectInput(node, x)).id = 0
    THEN NoChange
  ELSE UpdateStateZ(node, MergeInputs(node, StateCopy(PreState(node), zone), 1))

(***************************************************************************)
(* The graph rewrite the reducer's caller applies for a Replace: the value *)
(* uses of the node go to the replacement, its effect uses to the incoming *)
(* effect (ReplaceWithValue), or all its uses to the replacement; the node *)
(* is killed.                                                              *)
(***************************************************************************)
Subst(x, node, to) == IF x = node THEN to ELSE x

ReplaceUses(g, node, value_to, effect_to) ==
  [m \in DOMAIN g |->
     IF m = node THEN [g[m] EXCEPT !.removed = TRUE]
     ELSE [g[m] EXCEPT
             !.object = Subst(@, node, value_to),
             !.index = Subst(@, node, value_to),
             !.value = Subst(@, node, value_to),
             !.maps = [x \in DOMAIN @ |-> Subst(@[x], node, value_to)],
             !.eff = [x \in DOMAIN @ |-> Subst(@[x], node, effect_to)]]]

\* The effect uses of a node: the live nodes that have it as an effect input.
EffectUsers(g, node) ==
  {m \in DOMAIN g : ~g[m].removed /\ \E x \in DOMAIN g[m].eff : g[m].eff[x] = node}

(***************************************************************************)
(* Graphs.  A node record holds the operator (opcode, access, flags,       *)
(* effect counts, the NoWrite property), the static type and the inputs.   *)
(***************************************************************************)
Op(op, nowrite) ==
  [op |-> op, object |-> NULL, index |-> NULL, value |-> NULL, maps |-> <<>>,
   eff |-> <<>>, ctrl |-> "none", rep |-> "kTagged", offset |-> 0, flags |-> {},
   nowrite |-> nowrite, eic |-> 1, eoc |-> 1, type |-> {}, removed |-> FALSE]

StartOp == [Op("Start", TRUE) EXCEPT !.eic = 0]

DeadOp == [Op("Dead", TRUE) EXCEPT !.eic = 0, !.eoc = 0]

LoadFieldOp(object, offset, type) ==
  [Op("LoadField", TRUE) EXCEPT !.object = object, !.offset = offset, !.type = type]

StoreFieldOp(object, rep, offset, value) ==
  [Op("StoreField", FALSE) EXCEPT !.object = object, !.rep = rep, !.offset = offset,
                                  !.value = value]

CheckMapsOp(object, maps) == [Op("CheckMaps", TRUE) EXCEPT !.object = object, !.maps = maps]

EnsureWritableOp(object, elements) ==
  [Op("EnsureWritableFastElements", FALSE) EXCEPT !.object = object, !.value = elements,
                                                  !.type = {5}]

MaybeGrowOp(object, flags) ==
  [Op("MaybeGrowFastElements", FALSE) EXCEPT !.object = object, !.flags = flags,
                                             !.type = {5}]

TransitionOp(object, source_map, target_map, flags) ==
  [Op("TransitionElementsKind", FALSE) EXCEPT !.object = object,
                                              !.maps = <<source_map, target_map>>,
                                              !.flags = flags]

LoadElementOp(object, index, type) ==
  [Op("LoadElement", TRUE) EXCEPT !.object = object, !.index = index, !.type = type]

StoreElementOp(object, index, value, rep) ==
  [Op("StoreElement", FALSE) EXCEPT !.object = object, !.index = index, !.value = value,
                                    !.rep = rep]

StoreTypedElementOp == Op("StoreTypedElement", FALSE)

\* Any other operator with one effect input and one effect output.
OtherOp(nowrite) == Op("Other", nowrite)

\* An effect terminator: one effect input, no effect output.
TerminatorOp == [Op("Return", FALSE) EXCEPT !.eoc = 0]

EffectPhiOp(ctrl, eff) == [Op("EffectPhi", TRUE) EXCEPT !.ctrl = ctrl, !.eff = eff]

NodeNames == <<"n1", "n2", "n3", "n4", "n5", "n6">>

\* The position of a name in a sequence of names.
IndexOf(names, m) == CHOOSE y \in DOMAIN names : names[y] = m

\* start -> n1 -> ... -> nk, the operators of n1..nk as given.
Chain(ops) ==
  [m \in {"start"} \cup {NodeNames[x] : x \in 1..Len(ops)} |->
     IF m = "start" THEN StartOp
     ELSE [ops[IndexOf(NodeNames, m)] EXCEPT
             !.eff = <<IF m = "n1" THEN "start" ELSE NodeNames[IndexOf(NodeNames, m) - 1]>>]]

\* The sequences over a menu of operators, of 1 to n operators.
OpSeqs(menu, n) == UNION {[1..k -> menu] : k \in 1..n}

\* Loads and stores of the field at offset 40 (slot 5) of o, of o2 (may alias
\* o), of the allocation a and of its FinishRegion fr.
FieldMenu ==
  {LoadFieldOp("o", 40, {20, 21}), LoadFieldOp("o", 40, {20}),
   LoadFieldOp("o2", 40, {20, 21}), LoadFieldOp("fr", 40, {20, 21}),
   StoreFieldOp("o", "kTagged", 40, "v1"), StoreFieldOp("o", "kTagged", 40, "v2"),
   StoreFieldOp("a", "kTagged", 40, "v1"), StoreFieldOp("o", "kTagged", 40, "vd")}

FieldChains == {Chain(ops) : ops \in OpSeqs(FieldMenu, MaxChain)}

\* Map checks and elements-kind transitions of o, and a call that may write.
MapMenu ==
  {CheckMapsOp("o", <<"m1">>), CheckMapsOp("o", <<"m2">>), CheckMapsOp("o", <<"m2", "m1">>),
   TransitionOp("o", "m1", "m2", {"kSlowTransition"}), OtherOp(FALSE)}

MapChains == {Chain(ops) : ops \in OpSeqs(MapMenu, MaxChain)}

\* Element loads and stores and the operations on the elements backing store.
ElementMenu ==
  {LoadElementOp("o", "i", {20, 21}), StoreElementOp("o", "i", "v1", "kTagged"),
   StoreElementOp("o2", "c0", "v2", "kWord32"), StoreTypedElementOp,
   EnsureWritableOp("o", "fr"), MaybeGrowOp("o", {"kArrayObject"})}

ElementChains == {Chain(ops) : ops \in OpSeqs(ElementMenu, MaxChain)}

\* start -> pre -> phi -> body -> phi: a loop whose header phi has the end of
\* pre as its entry and the end of body as its back edge.
BodyNames == <<"b1", "b2", "b3", "b4", "b5">>

Loop(pre, body) ==
  [m \in DOMAIN Chain(pre) \cup {"phi"} \cup {BodyNames[x] : x \in 1..Len(body)} |->
     IF m \in DOMAIN Chain(pre) THEN Chain(pre)[m]
     ELSE IF m = "phi"
       THEN EffectPhiOp("Loop", <<NodeNames[Len(pre)], BodyNames[Len(body)]>>)
     ELSE [body[IndexOf(BodyNames, m)] EXCEPT
             !.eff = <<IF m = "b1" THEN "phi" ELSE BodyNames[IndexOf(BodyNames, m) - 1]>>]]

LoopPreMenu ==
  {StoreFieldOp("o", "kTagged", 40, "v1"), StoreFieldOp("o2", "kTagged", 40, "v1"),
   StoreFieldOp("a", "kTagged", 40, "v1"), CheckMapsOp("o", <<"m1">>),
   LoadElementOp("o", "i", {20, 21})}

LoopBodyMenu ==
  {StoreFieldOp("o", "kTagged", 40, "v2"), LoadFieldOp("o", 40, {20, 21}),
   StoreElementOp("o", "j", "v2", "kTagged")}

LoopGraphs ==
  {Loop(pre, body) : pre \in OpSeqs(LoopPreMenu, MaxLoopPre),
                     body \in OpSeqs(LoopBodyMenu, MaxLoopBody)}

\* start -> n1 -> (l | r) -> phi: two branches that meet at a Merge; d is a
\* dead node, and the phi is followed by a terminator.
Diamond(pre, left, right) ==
  [start |-> StartOp,
   n1 |-> [pre EXCEPT !.eff = <<"start">>],
   l |-> [left EXCEPT !.eff = <<"n1">>],
   r |-> [right EXCEPT !.eff = <<"n1">>],
   phi |-> EffectPhiOp("Merge", <<"l", "r">>),
   ret |-> [TerminatorOp EXCEPT !.eff = <<"phi">>],
   d |-> DeadOp]

BranchMenu ==
  {StoreFieldOp("o", "kTagged", 56, "v1"), StoreFieldOp("o", "kTagged", 56, "v2"),
   LoadElementOp("o", "i", {20, 21})}

MergeGraphs ==
  {Diamond(pre, left, right) :
     pre \in {CheckMapsOp("o", <<"m1">>), StoreFieldOp("a", "kTagged", 40, "v1")},
     left \in BranchMenu, right \in BranchMenu}

\* start -> n1 -> n2 -> n3: a node that records facts, then a store to a field
\* that is not tracked (by its representation or its offset), a call that may
\* write or one that does not, then a load, store or check of what n1 recorded.
OpaqueChains ==
  {Chain(<<pre, mid, post>>) :
     pre \in {StoreFieldOp("o", "kTagged", 40, "v1"), CheckMapsOp("o", <<"m1">>),
              StoreElementOp("o", "i", "v1", "kTagged")},
     mid \in {StoreFieldOp("o", "kWord8", 40, "v1"), StoreFieldOp("o", "kWord32", 40, "v1"),
              StoreFieldOp("o", "kTagged", 256, "v1"), OtherOp(FALSE), OtherOp(TRUE)},
     post \in {LoadFieldOp("o", 40, {20, 21}), StoreFieldOp("o", "kTagged", 40, "v1"),
               CheckMapsOp("o", <<"m1">>), LoadElementOp("o", "i", {20, 21})}}

\* The machine representations of an element access.
ElementRepresentations ==
  {"kWord8", "kWord16", "kWord32", "kWord64", "kFloat32", "kFloat64", "kSimd128",
   "kTaggedSigned", "kTaggedPointer", "kTagged"}

\* start -> n1 -> n2 -> n3: a node that records an element fact, a store of
\* v2 to element i of o in any representation, and a load of that element of
\* v2's type or of a narrower one.
TruncatingChains ==
  {Chain(<<pre, StoreElementOp("o", "i", "v2", rep), LoadElementOp("o", "i", type)>>) :
     type \in {{20, 21}, {20}},
     pre \in {StoreElementOp("o", "i", "v1", "kTagged"), StoreElementOp("o2", "j", "v1", "kTagged"),
              StoreElementOp("p", "i", "v1", "kTagged"), StoreElementOp("o", "c0", "v1", "kTagged"),
              StoreElementOp("o", "i", "v2", "kTagged")},
     rep \in ElementRepresentations}

\* start -> n1 -> n2 -> n3: the map of fr is checked to be the fixed array map,
\* and after another node the elements fr of o are ensured to be writable.
WritableChains ==
  {Chain(<<CheckMapsOp("fr", <<"fam">>), mid, EnsureWritableOp("o", "fr")>>) :
     mid \in {OtherOp(TRUE), StoreFieldOp("o", "kTagged", 40, "v1"),
               EnsureWritableOp("o", "fr")}}

Graphs ==
  FieldChains \cup MapChains \cup ElementChains \cup LoopGraphs \cup MergeGraphs
    \cup OpaqueChains \cup TruncatingChains \cup WritableChains

(***************************************************************************)
(* The pass, driven by the graph reducer: any live node may be reduced at  *)
(* any time (LoadElimination::Reduce dispatches on its opcode); a Replace  *)
(* is applied to the graph at once.                                        *)
(***************************************************************************)
NoLat == [op |-> "none"]

NoLast ==
  [node |-> NULL, op |-> "none", effect |-> NULL, pre |-> NullState, kind |-> "none",
   replacement |-> NULL, users |-> {}]

Init ==
  /\ graph \in Graphs
  /\ node_states = [m \in DOMAIN graph |-> NullState]
  /\ zone = 2
  /\ last = NoLast
  /\ lat = NoLat

\* The first effect input of a node, none for Start and Dead.
Incoming(node) == IF graph[node].eff = <<>> THEN NULL ELSE graph[node].eff[1]

\* What a call of Reduce(node) that returned r leaves behind: the state table
\* as the handler wrote it, and the graph as the reducer's caller rewrote it.
Apply(node, r) ==
  /\ node_states' = IF r.set THEN [node_states EXCEPT ![node] = r.state] ELSE node_states
  /\ zone' = IF r.set THEN r.z ELSE zone
  /\ graph' = IF r.kind = "Replace"
                THEN ReplaceUses(graph, node, r.replacement,
                                 IF r.rwv THEN Incoming(node) ELSE r.replacement)
                ELSE graph
  /\ last' = [node |-> node, op |-> graph[node].op, effect |-> Incoming(node),
              pre |-> Get(Incoming(node)),
              kind |-> r.kind, replacement |-> r.replacement,
              users |-> EffectUsers(graph, node)]
  /\ UNCHANGED lat

\* The live nodes of an opcode.
Live(ops) == {node \in DOMAIN graph : graph[node].op \in ops /\ ~graph[node].removed}

DoReduceCheckMaps == \E node \in Live({"CheckMaps"}) : Apply(node, ReduceCheckMaps(node))

DoReduceEnsureWritableFastElements ==
  \E node \in Live({"EnsureWritableFastElements"}) :
    Apply(node, ReduceEnsureWritableFastElements(node))

DoReduceMaybeGrowFastElements ==
  \E node \in Live({"MaybeGrowFastElements"}) : Apply(node, ReduceMaybeGrowFastElements(node))

DoReduceTransitionElementsKind ==
  \E node \in Live({"TransitionElementsKind"}) : Apply(node, ReduceTransitionElementsKind(node))

DoReduceLoadField == \E node \in Live({"LoadField"}) : Apply(node, ReduceLoadField(node))

DoReduceStoreField == \E node \in Live({"StoreField"}) : Apply(node, ReduceStoreField(node))

DoReduceLoadElement == \E node \in Live({"LoadElement"}) : Apply(node, ReduceLoadElement(node))

DoReduceStoreElement == \E node \in Live({"StoreElement"}) : Apply(node, ReduceStoreElement(node))

DoReduceStoreTypedElement ==
  \E node \in Live({"StoreTypedElement"}) : Apply(node, ReduceStoreTypedElement(node))

DoReduceEffectPhi == \E node \in Live({"EffectPhi"}) : Apply(node, ReduceEffectPhi(node))

DoReduceDead == \E node \in Live({"Dead"}) : Apply(node, NoChange)

DoReduceStart == \E node \in Live({"Start"}) : Apply(node, ReduceStart(node))

DoReduceOtherNode == \E node \in Live({"Other", "Return"}) : Apply(node, ReduceOtherNode(node))

Next ==
  \/ DoReduceCheckMaps
  \/ DoReduceEnsureWritableFastElements
  \/ DoReduceMaybeGrowFastElements
  \/ DoReduceTransitionElementsKind
  \/ DoReduceLoadField
  \/ DoReduceStoreField
  \/ DoReduceLoadElement
  \/ DoReduceStoreElement
  \/ DoReduceStoreTypedElement
  \/ DoReduceEffectPhi
  \/ DoReduceDead
  \/ DoReduceStart
  \/ DoReduceOtherNode

Spec == Init /\ [][Next]_vars

(***************************************************************************)
(* SpecLattice: the operations of AbstractState applied one after another  *)
(* to one state, from empty_state(), on objects, slots, indices and values *)
(* drawn from small sets.  lat holds the last operation, its arguments,    *)
(* the state it was applied to (pre) and the state it returned (post).     *)
(***************************************************************************)
LatObjects == {"o", "o2", "a", "fr"}

LatSlots == {FieldIndexOf("kTagged", 40)}

LatValues == {"v1", "v2"}

LatElementObjects == {"o", "o2"}

LatAddIndices == {"i", "c0"}

LatKillIndices == {"i", "j", "c0"}

LatOp(op, n, object, slot, index, value, pre, post) ==
  [op |-> op, n |-> n, object |-> object, slot |-> slot, index |-> index, value |-> value,
   pre |-> pre, post |-> post]

InitLattice ==
  /\ graph = Chain(<<>>)
  /\ node_states = [m \in DOMAIN graph |-> NullState]
  /\ zone = 2
  /\ last = NoLast
  /\ lat = LatOp("none", 0, NULL, 0, NULL, NULL, empty_state, empty_state)

\* The operation op applied to the current state lat.post returned s.
LatStep(op, object, slot, index, value, s) ==
  /\ lat' = LatOp(op, lat.n + 1, object, slot, index, value, lat.post, s.p)
  /\ zone' = s.z
  /\ UNCHANGED <<graph, node_states, last>>

LatAddField ==
  /\ lat.n < MaxLatOps
  /\ \E object \in LatObjects, slot \in LatSlots, value \in LatValues :
       LatStep("AddField", object, slot, NULL, value,
               AddField(lat.post, object, slot, value, zone))

LatKillField ==
  /\ lat.n < MaxLatOps
  /\ \E object \in LatObjects, slot \in LatSlots :
       LatStep("KillField", object, slot, NULL, NULL, KillField(lat.post, object, slot, zone))

LatAddElement ==
  /\ lat.n < MaxLatOps
  /\ \E object \in LatElementObjects, index \in LatAddIndices :
       LatStep("AddElement", object, 0, index, "v1",
               AddElement(lat.post, object, index, "v1", zone))

LatKillElement ==
  /\ lat.n < MaxLatOps
  /\ \E object \in LatElementObjects, index \in LatKillIndices :
       LatStep("KillElement", object, 0, index, NULL,
               KillElement(lat.post, object, index, zone))

NextLattice == LatAddField \/ LatKillField \/ LatAddElement \/ LatKillElement

SpecLattice == InitLattice /\ [][NextLattice]_vars

(***************************************************************************)
(* SpecMerge: Merge applied to two states A and B, each built from         *)
(* empty_state() by at most MaxRecipe operations of AbstractState.         *)
(***************************************************************************)
MergeOp(op, object, slot, index, value) ==
  [op |-> op, object |-> object, slot |-> slot, index |-> index, value |-> value]

MergeOps ==
  {MergeOp("AddField", "o", 5, NULL, "v1"), MergeOp("AddField", "o", 5, NULL, "v2"),
   MergeOp("AddField", "a", 5, NULL, "v1"), MergeOp("KillField", "o", 5, NULL, NULL),
   MergeOp("AddElement", "o", 0, "i", "v1"), MergeOp("AddElement", "o", 0, "c0", "v1"),
   MergeOp("KillElement", "o", 0, "i", NULL)}

ApplyOp(s, op) ==
  IF op.op = "AddField" THEN AddFieldZ(s, op.object, op.slot, op.value)
  ELSE IF op.op = "KillField" THEN KillFieldZ(s, op.object, op.slot)
  ELSE IF op.op = "AddElement" THEN AddElementZ(s, op.object, op.index, op.value)
  ELSE KillElementZ(s, op.object, op.index)

\* The state the operations of recipe, in order, make of s.
RECURSIVE Build(_, _)
Build(recipe, s) ==
  IF recipe = <<>> THEN s ELSE Build(Tail(recipe), ApplyOp(s, Head(recipe)))

Recipes == {<<>>} \cup OpSeqs(MergeOps, MaxRecipe)

MergeLat(op, A, B, AB, BA, AA, z) ==
  [op |-> op, A |-> A, B |-> B, AB |-> AB, BA |-> BA, AA |-> AA, z |-> z]

\* The operands: A as a recipe builds it from the first free id of the zone,
\* and B as a recipe builds it after A, past every id a recipe can take for
\* A (an operation allocates three objects at most).
MergeInput(A, B) == MergeLat("none", A.p, B.p, NullState, NullState, NullState, B.z)

BuiltA == {Build(recipe, [p |-> empty_state, z |-> 2]) : recipe \in Recipes}

BuiltB == {Build(recipe, [p |-> empty_state, z |-> 2 + 3 * MaxRecipe]) : recipe \in Recipes}

InitMerge ==
  /\ graph = Chain(<<>>)
  /\ node_states = [m \in DOMAIN graph |-> NullState]
  /\ last = NoLast
  /\ lat \in {MergeInput(A, B) : A \in BuiltA, B \in BuiltB}
  /\ zone = lat.z

\* A.Merge(B), B.Merge(A) and A.Merge(A), each on the states as they were built.
MergedAA(l, ab, ba, aa) == MergeLat("Merge", l.A, l.B, ab.p, ba.p, aa.p, aa.z)

MergedBA(l, ab, ba) == MergedAA(l, ab, ba, StateMerge(l.A, l.A, ba.z))

MergedAB(l, ab) == MergedBA(l, ab, StateMerge(l.B, l.A, ab.z))

DoStateMerge ==
  /\ lat.op = "none"
  /\ lat' = MergedAB(lat, StateMerge(lat.A, lat.B, zone))
  /\ zone' = lat'.z
  /\ UNCHANGED <<graph, node_states, last>>

NextMerge == DoStateMerge

SpecMerge == InitMerge /\ [][NextMerge]_vars

(***************************************************************************)
(* Properties of the reducer (Spec).                                       *)
(***************************************************************************)
\* The field slot of the access of the node last reduced.
LastSlot == FieldIndexOf(graph[last.node].rep, graph[last.node].offset)

\* The last reduction is Replace(value), and the nodes that had the replaced
\* node as an effect input now have the node's incoming effect instead.
ReplacedBy(value) ==
  /\ last.kind = "Replace"
  /\ last.replacement = value
  /\ graph[last.node].removed

\* C1: when a LoadField(o', k) on a tracked slot k is reduced and the state
\* recorded at its effect predecessor holds slot k of o -> x with o' must-
\* aliasing o, x not dead and x's type a subtype of the load's type, the
\* reduction is Replace(x), and the nodes downstream of the replaced load have
\* the load's incoming effect as their effect input, whose state still holds
\* slot k of o -> x.
LoadForwarding ==
  (/\ last.op = "LoadField"
   /\ last.pre.id # 0
   /\ LastSlot >= 0)
  => \A pair \in last.pre.fields[LastSlot].info :
       (/\ MustAlias(graph[last.node].object, pair[1])
        /\ ~IsDead(pair[2])
        /\ Is(TypeOf(pair[2]), TypeOf(last.node)))
       => /\ ReplacedBy(pair[2])
          /\ \A m \in last.users :
               /\ \E x \in DOMAIN graph[m].eff : graph[m].eff[x] = last.effect
               /\ \A x \in DOMAIN graph[m].eff : graph[m].eff[x] # last.node
          /\ pair \in node_states[last.effect].fields[LastSlot].info
          /\ LookupField(node_states[last.effect], graph[last.node].object, LastSlot)
               = pair[2]

\* A load with a downstream node was replaced by the value a store put in the
\* state of its effect predecessor.
LoadForwardingWitness ==
  /\ last.op = "LoadField"
  /\ last.kind = "Replace"
  /\ last.users # {}
  /\ graph[last.effect].op = "StoreField"
  /\ last.replacement = graph[last.effect].value
  /\ LookupField(last.pre, graph[last.node].object, LastSlot) = last.replacement

\* The effect predecessor of the node last reduced is a StoreField of the same
\* object, access and value node.
AfterSameStore ==
  /\ graph[last.effect].op = "StoreField"
  /\ graph[last.effect].object = graph[last.node].object
  /\ graph[last.effect].rep = graph[last.node].rep
  /\ graph[last.effect].offset = graph[last.node].offset
  /\ graph[last.effect].value = graph[last.node].value

\* C2: of two consecutive StoreField(o, k, v) on the effect chain with the
\* same value node v (k a tracked slot, the first store's state recorded), the
\* second is reduced to Replace(effect), effect its incoming effect.
StoreOverStore ==
  (/\ last.op = "StoreField"
   /\ last.pre.id # 0
   /\ LastSlot >= 0
   /\ AfterSameStore)
  => ReplacedBy(last.effect)

\* The second of two equal stores was reduced, the first one's state recorded.
StoreOverStoreWitness ==
  /\ last.op = "StoreField"
  /\ last.pre.id # 0
  /\ LastSlot >= 0
  /\ AfterSameStore
  /\ last.kind = "Replace"
  /\ ~graph[last.effect].removed

\* The effect predecessor of the node last reduced is a CheckMaps of the same
\* object with exactly one map, which the node lists among its maps.
AfterSingleMapCheck ==
  /\ graph[last.effect].op = "CheckMaps"
  /\ graph[last.effect].object = graph[last.node].object
  /\ Len(graph[last.effect].maps) = 1
  /\ \E x \in DOMAIN graph[last.node].maps :
       graph[last.node].maps[x] = graph[last.effect].maps[1]

\* C3: a CheckMaps(o, M) with exactly one map that is not redundant records
\* slot 0 of o -> M in its post-state, and a following CheckMaps(o, ...) that
\* lists M is reduced to Replace(incoming effect), whatever map was known for
\* o before the first check.
RedundantMapCheck ==
  /\ \A n \in DOMAIN graph :
       (/\ graph[n].op = "CheckMaps"
        /\ ~graph[n].removed
        /\ Len(graph[n].maps) = 1
        /\ node_states[n].id # 0)
       => LookupField(node_states[n], graph[n].object, 0) = graph[n].maps[1]
  /\ (/\ last.op = "CheckMaps"
      /\ last.pre.id # 0
      /\ AfterSingleMapCheck)
     => ReplacedBy(last.effect)

\* A check was replaced after a check with one map M, and before that check
\* another map than M was known for the object.
RedundantMapCheckWitness ==
  /\ last.op = "CheckMaps"
  /\ last.kind = "Replace"
  /\ AfterSingleMapCheck
  /\ LookupField(Get(graph[last.effect].eff[1]), graph[last.node].object, 0)
       \notin {NULL, graph[last.effect].maps[1]}

\* The graph is Start -> LoadField(o, 5) = n1 -> StoreField(o, 5, v) = n2 ->
\* LoadField(o2, 5) = n3 with alias(o, o2) = may.
MayAliasChain ==
  /\ DOMAIN graph = {"start", "n1", "n2", "n3"}
  /\ graph["n1"].op = "LoadField" /\ graph["n1"].eff = <<"start">>
  /\ graph["n2"].op = "StoreField" /\ graph["n2"].eff = <<"n1">>
  /\ graph["n3"].op = "LoadField" /\ graph["n3"].eff = <<"n2">>
  /\ graph["n1"].object = graph["n2"].object
  /\ \A n \in {"n1", "n2", "n3"} : FieldIndexOf(graph[n].rep, graph[n].offset) = 5
  /\ QueryAlias(graph["n2"].object, graph["n3"].object) = kMayAlias

\* C4: on the chain Start -> LoadField(o, 5) = n1 -> StoreField(o, 5, v) ->
\* LoadField(o2, 5) = n3 with alias(o, o2) = may, the last load is not
\* replaced, and its recorded post-state maps slot 5 of o2 to n3 while slot 5
\* of o is unknown.
MayAliasScenario ==
  MayAliasChain
  => /\ ~graph["n3"].removed
     /\ last.node = "n3" => last.kind # "Replace"
     /\ node_states["n3"].id # 0
        => /\ LookupField(node_states["n3"], graph["n3"].object, 5) = "n3"
           /\ LookupField(node_states["n3"], graph["n2"].object, 5) = NULL
     /\ (last.node = "n3" /\ last.pre.id # 0) => node_states["n3"].id # 0

\* The last load of the chain was reduced after the store recorded its state.
MayAliasScenarioWitness ==
  /\ MayAliasChain
  /\ last.node = "n3"
  /\ last.pre.id # 0
  /\ LookupField(last.pre, graph["n2"].object, 5) = graph["n2"].value
  /\ node_states["n3"].id # 0

\* The live nodes of the loop body, and those of them that may write.
LoopBody == {m \in DOMAIN graph : ~graph[m].removed /\ \E x \in DOMAIN BodyNames : BodyNames[x] = m}

LoopWriters == {m \in LoopBody : ~graph[m].nowrite}

\* The last reduction is that of the EffectPhi of a loop, the entry state
\* known, whose body writes, and only with StoreField to slot of object.
LoopWritesOnly(object, slot) ==
  /\ last.op = "EffectPhi"
  /\ graph[last.node].ctrl = "Loop"
  /\ last.pre.id # 0
  /\ LoopWriters # {}
  /\ \A m \in LoopWriters :
       /\ graph[m].op = "StoreField"
       /\ graph[m].object = object
       /\ FieldIndexOf(graph[m].rep, graph[m].offset) = slot

\* C10 (as amended): for an EffectPhi over a Loop whose body writes only to
\* slot k of object o, the state ComputeLoopState makes of the entry state has
\* lost the slot-k facts of every object that may alias o (o included) and
\* holds every other fact of the entry state, and no other.
LoopSoundness ==
  \A object \in LatObjects, slot \in FieldIndices :
    LoopWritesOnly(object, slot)
    => /\ StateFieldFacts(node_states[last.node])
            = {f \in StateFieldFacts(last.pre) : ~(f[1] = slot /\ MayAlias(object, f[2]))}
       /\ StateElementFacts(node_states[last.node]) = StateElementFacts(last.pre)

\* The loop state lost the slot-k fact of an object other than o and kept a
\* fact.
LoopSoundnessWitness ==
  \E object \in LatObjects, slot \in FieldIndices :
    /\ LoopWritesOnly(object, slot)
    /\ \E f \in StateFieldFacts(last.pre) :
         f[1] = slot /\ f[2] # object /\ f \notin StateFieldFacts(node_states[last.node])
    /\ StateFieldFacts(node_states[last.node]) # {}

\* C10 as stated: the loop state has lost exactly the facts of slot k of o and
\* holds every other fact of the entry state.
LoopKillsExactlySlotOfObject ==
  \A object \in LatObjects, slot \in FieldIndices :
    LoopWritesOnly(object, slot)
    => /\ StateFieldFacts(node_states[last.node])
            = {f \in StateFieldFacts(last.pre) : ~(f[1] = slot /\ f[2] = object)}
       /\ StateElementFacts(node_states[last.node]) = StateElementFacts(last.pre)

(***************************************************************************)
(* Properties of the abstract state (SpecLattice).                         *)
(***************************************************************************)
\* C5: after state.KillField(o, k), LookupField(o', k) is none for every o'
\* with mayAlias(o, o').
KillCoversMayAlias ==
  lat.op = "KillField"
  => \A other \in LatObjects :
       MayAlias(lat.object, other) => LookupField(lat.post, other, lat.slot) = NULL

\* C6 (as amended): state.AddField(o, k, v).LookupField(o', k) is v whenever
\* mustAlias(o, o'); whenever noAlias(o, o') it is none if
\* state.LookupField(o', k) was none, and else none or the value
\* state.LookupField(o', k) was.
ExtendThenLookup ==
  lat.op = "AddField"
  => \A other \in LatObjects :
       /\ MustAlias(lat.object, other)
          => LookupField(lat.post, other, lat.slot) = lat.value
       /\ QueryAlias(lat.object, other) = kNoAlias
          => LookupField(lat.post, other, lat.slot)
               \in {NULL, LookupField(lat.pre, other, lat.slot)}

\* AddField(o, k, v) was applied to a state that held another value for an
\* object that must-aliases o without being o, and a value for an object that
\* does not alias o.
ExtendThenLookupWitness ==
  /\ lat.op = "AddField"
  /\ \E other \in LatObjects :
       /\ other # lat.object
       /\ MustAlias(lat.object, other)
       /\ LookupField(lat.pre, other, lat.slot) \notin {NULL, lat.value}
       /\ LookupField(lat.post, other, lat.slot) = lat.value
  /\ \E other \in LatObjects :
       /\ QueryAlias(lat.object, other) = kNoAlias
       /\ LookupField(lat.post, other, lat.slot) # NULL

\* C6 as stated: state.AddField(o, k, v).LookupField(o', k) is v whenever
\* mustAlias(o, o') and none whenever noAlias(o, o').
ExtendThenLookupNone ==
  lat.op = "AddField"
  => \A other \in LatObjects :
       /\ MustAlias(lat.object, other)
          => LookupField(lat.post, other, lat.slot) = lat.value
       /\ QueryAlias(lat.object, other) = kNoAlias
          => LookupField(lat.post, other, lat.slot) = NULL

\* The state, the field and the ring are the very objects the operation was
\* applied to.
SameState == lat.post.id = lat.pre.id

SameField == lat.post.fields[lat.slot].id = lat.pre.fields[lat.slot].id

SameElements == lat.post.elements.id = lat.pre.elements.id

MonotoneMerge ==
  lat.op = "Merge"
  => /\ StateElementFacts(lat.AB) \subseteq StateElementFacts(lat.A) \cap StateElementFacts(lat.B)
     /\ StateFieldFacts(lat.AB) \subseteq StateFieldFacts(lat.A) \cap StateFieldFacts(lat.B)
     /\ StateEquals(lat.AA, lat.A)
     /\ StateEquals(lat.A, lat.AA)

\* Two states were merged each of which holds an element B (A) does not, and
\* the merge holds an element; or the same with field pairs.
MonotoneMergeWitness ==
  /\ lat.op = "Merge"
  /\ \/ /\ StateElementFacts(lat.A) \ StateElementFacts(lat.B) # {}
        /\ StateElementFacts(lat.AB) # {}
     \/ /\ StateFieldFacts(lat.A) \ StateFieldFacts(lat.B) # {}
        /\ StateFieldFacts(lat.B) \ StateFieldFacts(lat.A) # {}
        /\ StateFieldFacts(lat.AB) # {}

\* C9: A.Merge(B).Equals(B.Merge(A)), where Equals tells an absent ring or
\* field slot from a present one without facts.
CommutativeMerge ==
  lat.op = "Merge"
  => /\ StateEquals(lat.AB, lat.BA)
     /\ lat.AB.elements.id = 0 <=> lat.BA.elements.id = 0
     /\ \A x \in FieldIndices : lat.AB.fields[x].id = 0 <=> lat.BA.fields[x].id = 0

\* A state with a ring and a field slot, both without facts, was merged with
\* a state that has neither, or with one that has facts in both.
CommutativeMergeWitness ==
  /\ lat.op = "Merge"
  /\ lat.A.elements.id # 0 /\ StateElementFacts(lat.A) = {}
  /\ \/ lat.B.elements.id = 0
     \/ StateElementFacts(lat.B) # {}
  /\ ~StateEquals(lat.A, lat.B)
  /\ StateEquals(lat.AB, lat.BA)

(***************************************************************************)
(* Further properties of the reducer (Spec).                               *)
(***************************************************************************)
\* The indices of the model's element accesses.
ElementIndexNodes == {"i", "j", "c0"}

\* The last reduction is that of the EffectPhi of a loop, the entry state
\* known, whose body writes, and only with StoreElement(object, index, _).
LoopStoresElementOnly(object, index) ==
  /\ last.op = "EffectPhi"
  /\ graph[last.node].ctrl = "Loop"
  /\ last.pre.id # 0
  /\ LoopWriters # {}
  /\ \A m \in LoopWriters :
       /\ graph[m].op = "StoreElement"
       /\ graph[m].object = object
       /\ graph[m].index = index

\* C11: for a loop header EffectPhi whose body has StoreElement(o, i, v) as
\* its only writer, the state recorded at the header holds the field facts of
\* the entry state (slot 0 of o -> M among them) and has no element fact for
\* (o, j), for every j that may alias i.
LoopElementKill ==
  \A object \in LatObjects, index \in ElementIndexNodes :
    LoopStoresElementOnly(object, index)
    => /\ node_states[last.node].id # 0
       /\ StateFieldFacts(node_states[last.node]) = StateFieldFacts(last.pre)
       /\ LookupField(node_states[last.node], object, 0) = LookupField(last.pre, object, 0)
       /\ \A other \in ElementIndexNodes :
            MayAlias(index, other)
            => LookupElement(node_states[last.node], object, other) = NULL

\* The entry state knew the map of o and an element (o, j) with j another
\* index than i that may alias i, and the header state has the map only.
LoopElementKillWitness ==
  \E object \in LatObjects, index \in ElementIndexNodes :
    /\ LoopStoresElementOnly(object, index)
    /\ LookupField(last.pre, object, 0) = "m1"
    /\ LookupField(node_states[last.node], object, 0) = "m1"
    /\ \E other \in ElementIndexNodes :
         /\ other # index
         /\ MayAlias(index, other)
         /\ LookupElement(last.pre, object, other) # NULL
         /\ LookupElement(node_states[last.node], object, other) = NULL

(***************************************************************************)
(* SpecRing: Extend, Kill and Merge of AbstractElements applied to a ring  *)
(* that was filled by up to MaxRingFill calls of Extend, more than the     *)
(* ring has positions.  lat holds the last operation, the ring it          *)
(* returned, the number of positions it wrote (top) and the ring Merge is  *)
(* called with (other).                                                    *)
(***************************************************************************)
RingObjects == <<"o", "a", "p">>

RingIndexNodes == <<"i", "c0", "c1">>

\* The x-th of the pairs (object, index) the rings are filled with, in
\* rounds of nine pairs no two of which alias.
RingPair(x) ==
  [object |-> RingObjects[(((x - 1) \div 3) % 3) + 1],
   index |-> RingIndexNodes[((x - 1) % 3) + 1]]

ExtendZ(r, pair, value) == ElementsExtend(r.p, pair.object, pair.index, value, r.z)

\* The ring of the first k pairs, added one after the other (as a set of
\* one ring).
RECURSIVE Filled(_, _)
Filled(k, z) ==
  IF k = 1 THEN {NewElements(RingPair(1).object, RingPair(1).index, "v1", z)}
  ELSE {ExtendZ(r, RingPair(k), "v1") : r \in Filled(k - 1, z)}

\* The rings operated on, and the rings merged with, which are allocated
\* after them (a call of Extend allocates two rings at most).
RingsA == UNION {Filled(k, 2) : k \in 1..MaxRingFill}

RingsB == UNION {Filled(k, 2 + 2 * MaxRingFill) : k \in 1..MaxRingFill}

RingLat(op, n, ring, other, top, z) ==
  [op |-> op, n |-> n, ring |-> ring, other |-> other, top |-> top, z |-> z]

InitRing ==
  /\ graph = Chain(<<>>)
  /\ node_states = [m \in DOMAIN graph |-> NullState]
  /\ last = NoLast
  /\ lat \in {RingLat("none", 0, A.p, B.p, A.top, B.z) : A \in RingsA, B \in RingsB}
  /\ zone = lat.z

\* The operation op on the current ring returned r.
RingStep(op, r) ==
  /\ lat' = RingLat(op, lat.n + 1, r.p, lat.other, r.top, r.z)
  /\ zone' = r.z
  /\ UNCHANGED <<graph, node_states, last>>

RingArgObjects == {"o", "o2", "p"}

RingArgIndices == {"i", "j", "c1"}

RingExtend ==
  /\ lat.n < MaxRingOps
  /\ \E object \in RingArgObjects, index \in RingArgIndices :
       RingStep("Extend", ElementsExtend(lat.ring, object, index, "v2", zone))

RingKill ==
  /\ lat.n < MaxRingOps
  /\ \E object \in RingArgObjects, index \in RingArgIndices :
       RingStep("Kill", ElementsKill(lat.ring, object, index, zone))

RingMerge ==
  /\ lat.n < MaxRingOps
  /\ RingStep("Merge", ElementsMerge(lat.ring, lat.other, zone))

NextRing == RingExtend \/ RingKill \/ RingMerge

SpecRing == InitRing /\ [][NextRing]_vars

\* The number of facts of a ring.
RingSize(this) == Cardinality({x \in ElementIndices : this.elements[x].object # NULL})

\* C12: after any sequence of Extend, Kill and Merge on AbstractElements, the
\* ring holds at most kMaxTrackedElements (8) non-null facts, no operation
\* has written at a position outside [0, capacity), and the insert cursor is
\* in [0, capacity).
ElementsRingBound ==
  /\ RingSize(lat.ring) <= kMaxTrackedElements
  /\ lat.top <= kMaxTrackedElements
  /\ lat.ring.next_index >= 0
  /\ lat.ring.next_index < kMaxTrackedElements

\* Extend was applied to a full ring and wrote its last position: the cursor
\* is back at position 0, and the ring is full.
ElementsRingBoundWitness ==
  /\ lat.op = "Extend"
  /\ lat.top = kMaxTrackedElements
  /\ lat.ring.next_index = 0
  /\ RingSize(lat.ring) = kMaxTrackedElements

(***************************************************************************)
(* SpecOrder: the reducer run to a fixed point twice on the same graph,    *)
(* the nodes visited in any order.  lat holds the input graph, the         *)
(* rewrites emitted so far in the run, and what the first run ended with.  *)
(***************************************************************************)
\* LoadElimination::Reduce: the handler of the node's opcode.
Reduce(node) ==
  CASE graph[node].op = "CheckMaps" -> ReduceCheckMaps(node)
    [] graph[node].op = "EnsureWritableFastElements" -> ReduceEnsureWritableFastElements(node)
    [] graph[node].op = "MaybeGrowFastElements" -> ReduceMaybeGrowFastElements(node)
    [] graph[node].op = "TransitionElementsKind" -> ReduceTransitionElementsKind(node)
    [] graph[node].op = "LoadField" -> ReduceLoadField(node)
    [] graph[node].op = "StoreField" -> ReduceStoreField(node)
    [] graph[node].op = "LoadElement" -> ReduceLoadElement(node)
    [] graph[node].op = "StoreElement" -> ReduceStoreElement(node)
    [] graph[node].op = "StoreTypedElement" -> ReduceStoreTypedElement(node)
    [] graph[node].op = "EffectPhi" -> ReduceEffectPhi(node)
    [] graph[node].op = "Dead" -> NoChange
    [] graph[node].op = "Start" -> ReduceStart(node)
    [] OTHER -> ReduceOtherNode(node)

\* A loop after o2.f := a and o.g := v2, whose body loads o2.f (b1) and then
\* stores to field g of the loaded object, stores to o2.g and loads o.g.
OrderBodyMenu ==
  {StoreFieldOp("b1", "kTagged", 56, "v1"), StoreFieldOp("o2", "kTagged", 56, "v1"),
   LoadFieldOp("o", 56, {20, 21})}

OrderLoopGraphs ==
  {Loop(<<StoreFieldOp("o2", "kTagged", 40, "a"), StoreFieldOp("o", "kTagged", 56, "v2")>>,
        <<LoadFieldOp("o2", 40, {1, 2})>> \o body) :
     body \in OpSeqs(OrderBodyMenu, MaxOrderBody)}

\* A diamond whose phi is followed by a load of slot 7 of o.
DiamondTail(pre, left, right) ==
  [start |-> StartOp,
   n1 |-> [pre EXCEPT !.eff = <<"start">>],
   l |-> [left EXCEPT !.eff = <<"n1">>],
   r |-> [right EXCEPT !.eff = <<"n1">>],
   phi |-> EffectPhiOp("Merge", <<"l", "r">>),
   n2 |-> [LoadFieldOp("o", 56, {20, 21}) EXCEPT !.eff = <<"phi">>]]

TailGraphs ==
  {DiamondTail(StoreFieldOp("o", "kTagged", 56, "v1"), left, right) :
     left \in BranchMenu \cup {OtherOp(TRUE)}, right \in BranchMenu \cup {OtherOp(TRUE)}}

OrderGraphs == OrderLoopGraphs \cup TailGraphs \cup MergeGraphs

OrderLat(run, graph0, rewrites, table, first_rewrites, first_graph) ==
  [op |-> "order", run |-> run, graph0 |-> graph0, rewrites |-> rewrites,
   table |-> table, first_rewrites |-> first_rewrites, first_graph |-> first_graph]

NoTable(g) == [m \in DOMAIN g |-> NullState]

InitOrder ==
  /\ graph \in OrderGraphs
  /\ node_states = NoTable(graph)
  /\ zone = 2
  /\ last = NoLast
  /\ lat = OrderLat(1, graph, {}, NoTable(graph), {}, graph)

\* What a call of Reduce(node) that returned r leaves behind, the rewrite
\* of a Replace added to the rewrites of the run.
Visit(node, r) ==
  /\ node_states' = IF r.set THEN [node_states EXCEPT ![node] = r.state] ELSE node_states
  /\ zone' = IF r.set THEN r.z ELSE zone
  /\ graph' = IF r.kind = "Replace"
                THEN ReplaceUses(graph, node, r.replacement,
                                 IF r.rwv THEN Incoming(node) ELSE r.replacement)
                ELSE graph
  /\ lat' = [lat EXCEPT !.rewrites = IF r.kind = "Replace"
                                       THEN @ \cup {<<node, r.replacement>>} ELSE @]
  /\ UNCHANGED last

LiveNodes == {node \in DOMAIN graph : ~graph[node].removed}

\* The driver visits a node.
OrderVisit ==
  /\ lat.op = "order"
  /\ \E node \in LiveNodes : Visit(node, Reduce(node))

\* No visit of a node changes anything any more.
FixedPoint == \A node \in LiveNodes : Reduce(node).kind = "NoChange"

\* The first run is over: its result is kept and the second run starts on the
\* input graph with an empty table.
OrderRestart ==
  /\ lat.op = "order"
  /\ lat.run = 1
  /\ FixedPoint
  /\ lat' = OrderLat(2, lat.graph0, {}, node_states, lat.rewrites, graph)
  /\ graph' = lat.graph0
  /\ node_states' = NoTable(lat.graph0)
  /\ zone' = 2
  /\ UNCHANGED last

NextOrder == OrderVisit \/ OrderRestart

SpecOrder == InitOrder /\ [][NextOrder]_vars

\* Both absent, or both present and Equals.
SameRecorded(s, t) == IF s.id = 0 THEN t.id = 0 ELSE t.id # 0 /\ StateEquals(s, t)

SecondRunDone == lat.op = "order" /\ lat.run = 2 /\ FixedPoint

\* C13 as stated: two runs of the reducer to fixed point on the same graph, in
\* whatever visit orders, end with the same per-node state table (by Equals)
\* and the same set of emitted Replace rewrites.
FixedPointDeterminism ==
  SecondRunDone =>
    /\ \A node \in DOMAIN graph : SameRecorded(node_states[node], lat.table[node])
    /\ lat.rewrites = lat.first_rewrites

\* C13, what holds: two runs to fixed point on the same graph, in whatever
\* visit orders, end with the same graph and, for every node that is still
\* in the graph, with states that are Equals.
FixedPointDeterminismOfLiveNodes ==
  SecondRunDone =>
    /\ graph = lat.first_graph
    /\ \A node \in LiveNodes : SameRecorded(node_states[node], lat.table[node])

\* Two runs that ended with different rewrite sets and different tables.
FixedPointDeterminismOfLiveNodesWitness ==
  /\ SecondRunDone
  /\ lat.rewrites # lat.first_rewrites
  /\ \E node \in DOMAIN graph : node_states[node].id # 0 /\ lat.table[node].id = 0
  /\ \E node \in LiveNodes : node_states[node].id # 0 /\ StateFieldFacts(node_states[node]) # {}

(***************************************************************************)
(* SpecUpdate: UpdateState applied to the nodes of a chain with states     *)
(* that are new, recorded already (the same object), or copies.  lat holds *)
(* the call and the table before it.                                       *)
(***************************************************************************)
UpdateLat(n, node, state, table, kind) ==
  [op |-> "update", n |-> n, node |-> node, state |-> state, table |-> table, kind |-> kind]

InitUpdate ==
  /\ graph = Chain(<<OtherOp(TRUE), OtherOp(TRUE)>>)
  /\ node_states = NoTable(graph)
  /\ zone = 2
  /\ last = NoLast
  /\ lat = UpdateLat(0, NULL, NullState, node_states, "none")

\* UpdateState(node, c.p), c.p allocated (if at all) before the call.
UpdateStep(node, c, r) ==
  /\ node_states' = IF r.set THEN [node_states EXCEPT ![node] = r.state] ELSE node_states
  /\ zone' = c.z
  /\ lat' = UpdateLat(lat.n + 1, node, c.p, node_states, r.kind)
  /\ UNCHANGED <<graph, last>>

UpdateCall(node, c) == UpdateStep(node, c, UpdateState(node, c.p, c.z))

Recorded == {node \in DOMAIN node_states : Get(node).id # 0}

UpdateWithEmpty ==
  /\ lat.n < MaxUpdateOps
  /\ \E node \in DOMAIN graph : UpdateCall(node, [p |-> empty_state, z |-> zone])

UpdateWithRecorded ==
  /\ lat.n < MaxUpdateOps
  /\ \E node \in DOMAIN graph, m \in Recorded : UpdateCall(node, [p |-> Get(m), z |-> zone])

UpdateWithCopy ==
  /\ lat.n < MaxUpdateOps
  /\ \E node \in DOMAIN graph, m \in Recorded : UpdateCall(node, StateCopy(Get(m), zone))

UpdateWithAddField ==
  /\ lat.n < MaxUpdateOps
  /\ \E node \in DOMAIN graph, m \in Recorded, object \in {"o", "a"}, value \in LatValues :
       UpdateCall(node, AddFieldZ([p |-> Get(m), z |-> zone], object, 5, value))

UpdateWithAddElement ==
  /\ lat.n < MaxUpdateOps
  /\ \E node \in DOMAIN graph, m \in Recorded :
       UpdateCall(node, AddElementZ([p |-> Get(m), z |-> zone], "o", "i", "v1"))

NextUpdate ==
  \/ UpdateWithEmpty
  \/ UpdateWithRecorded
  \/ UpdateWithCopy
  \/ UpdateWithAddField
  \/ UpdateWithAddElement

SpecUpdate == InitUpdate /\ [][NextUpdate]_vars

UpdateCalled == lat.op = "update" /\ lat.n > 0

\* C15: UpdateState(node, state) writes state into the per-node table and
\* returns Changed exactly when node had no recorded state or state is not
\* Equals to the recorded one; otherwise it returns NoChange and the recorded
\* state of node stays the same object; no other node's entry changes.
UpdateStateContract ==
  UpdateCalled =>
    /\ lat.kind \in {"Changed", "NoChange"}
    /\ lat.kind = "Changed" <=>
         (lat.table[lat.node].id = 0 \/ ~StateEquals(lat.state, lat.table[lat.node]))
    /\ lat.kind = "Changed" => node_states[lat.node] = lat.state
    /\ lat.kind = "NoChange" => node_states[lat.node] = lat.table[lat.node]
    /\ \A m \in DOMAIN node_states : m # lat.node => node_states[m] = lat.table[m]

\* UpdateState called with a state that is another object than the recorded
\* one and Equals to it, facts included: NoChange, the recorded object stays.
UpdateStateContractWitness ==
  /\ UpdateCalled
  /\ lat.kind = "NoChange"
  /\ lat.table[lat.node].id # 0
  /\ lat.state.id # lat.table[lat.node].id
  /\ StateFieldFacts(lat.state) # {}
  /\ node_states[lat.node].id = lat.table[lat.node].id

(***************************************************************************)
(* C14: the state of an EffectPhi over a Merge.                            *)
(***************************************************************************)
\* The last reduction was of an EffectPhi over a Merge whose effect inputs
\* all have a state.
MergePhiReduced ==
  /\ last.op = "EffectPhi"
  /\ graph[last.node].ctrl = "Merge"
  /\ \A x \in DOMAIN graph[last.node].eff : Get(graph[last.node].eff[x]).id # 0

\* The facts every input of the phi has.
CommonFieldFacts(phi) ==
  {f \in StateFieldFacts(Get(graph[phi].eff[1])) :
     \A x \in DOMAIN graph[phi].eff : f \in StateFieldFacts(Get(graph[phi].eff[x]))}

CommonElementFacts(phi) ==
  {f \in StateElementFacts(Get(graph[phi].eff[1])) :
     \A x \in DOMAIN graph[phi].eff : f \in StateElementFacts(Get(graph[phi].eff[x]))}

\* C14: for an EffectPhi over a Merge whose effect inputs all have recorded
\* states, the state recorded at the phi holds exactly the facts present, by
\* node identity, in every input; when the two branches record slot 7 of o as
\* v1 and as v2, the phi's state has no fact for slot 7 of o.
MergeAtMerge ==
  MergePhiReduced =>
    /\ Get(last.node).id # 0
    /\ StateFieldFacts(Get(last.node)) = CommonFieldFacts(last.node)
    /\ StateElementFacts(Get(last.node)) = CommonElementFacts(last.node)
    /\ (/\ LookupField(Get(graph[last.node].eff[1]), "o", 7) = "v1"
        /\ LookupField(Get(graph[last.node].eff[2]), "o", 7) = "v2")
         => LookupField(Get(last.node), "o", 7) = NULL

\* The phi of two branches that record slot 7 of o as v1 and as v2 and share
\* another fact: the phi's state has the shared fact only.
MergeAtMergeWitness ==
  /\ MergePhiReduced
  /\ last.kind = "Changed"
  /\ LookupField(Get(graph[last.node].eff[1]), "o", 7) = "v1"
  /\ LookupField(Get(graph[last.node].eff[2]), "o", 7) = "v2"
  /\ LookupField(Get(last.node), "o", 7) = NULL
  /\ StateFieldFacts(Get(last.node)) # {}

(***************************************************************************)
(* C16: a node whose predecessor has no state yet.                         *)
(***************************************************************************)
\* The state the handler of node needs is absent: of any effect input for an
\* EffectPhi over a Merge, of the first effect input otherwise.
PredecessorStateAbsent(node) ==
  /\ graph[node].eff # <<>>
  /\ IF graph[node].op = "EffectPhi" /\ graph[node].ctrl = "Merge"
       THEN \E x \in DOMAIN graph[node].eff : Get(graph[node].eff[x]).id = 0
       ELSE Get(graph[node].eff[1]).id = 0

\* C16: for every handler other than Start, when the state of the node's
\* effect input (any effect input of an EffectPhi over a Merge, the first one
\* of an EffectPhi over a Loop) is absent, the handler returns NoChange, emits
\* no replacement, and leaves the per-node state table (and the graph) as
\* they were.
MissingPredecessorState ==
  [][\A node \in DOMAIN graph :
       (last'.node = node /\ PredecessorStateAbsent(node)) =>
         /\ last'.kind = "NoChange"
         /\ last'.replacement = NULL
         /\ node_states' = node_states
         /\ graph' = graph]_vars

\* An EffectPhi over a Merge was visited with a state for its first input and
\* none for its second: NoChange, and the phi has no state.
MissingPredecessorStateWitness ==
  /\ last.op = "EffectPhi"
  /\ graph[last.node].ctrl = "Merge"
  /\ Get(graph[last.node].eff[1]).id # 0
  /\ Get(graph[last.node].eff[2]).id = 0
  /\ last.kind = "NoChange"
  /\ Get(last.node).id = 0

(***************************************************************************)
(* C17: opaque writes.                                                     *)
(***************************************************************************)
\* A StoreField whose access maps to no tracked slot, or a node of the default
\* case with one effect input, one effect output and without NoWrite.
OpaqueWrite(node) ==
  \/ /\ graph[node].op = "StoreField"
     /\ FieldIndexOf(graph[node].rep, graph[node].offset) < 0
  \/ /\ graph[node].op \in {"Other", "Return"}
     /\ graph[node].eic = 1
     /\ graph[node].eoc = 1
     /\ ~graph[node].nowrite

\* C17: whenever the pre-state is present, the state recorded for an opaque
\* write is empty_state (no element facts, no field facts) whatever facts the
\* pre-state held, and the node that follows it is reduced from the empty
\* state and never replaced: no fact recorded before the opaque write is used
\* after it.
OpaqueWritesReset ==
  /\ (last.node # NULL /\ OpaqueWrite(last.node) /\ last.pre.id # 0) =>
       /\ last.kind # "Replace"
       /\ Get(last.node) = empty_state
       /\ StateFieldFacts(Get(last.node)) = {}
       /\ StateElementFacts(Get(last.node)) = {}
  /\ (last.effect \in DOMAIN graph /\ OpaqueWrite(last.effect) /\ last.pre.id # 0) =>
       /\ last.pre = empty_state
       /\ last.kind # "Replace"

\* The load of slot 5 of o after o.slot5 := v1 and a store to an untracked
\* field: the store's state is empty though its pre-state has the fact, and
\* the load is not replaced.
OpaqueWritesResetWitness ==
  /\ last.op = "LoadField"
  /\ last.kind = "Changed"
  /\ last.effect \in DOMAIN graph
  /\ graph[last.effect].op = "StoreField"
  /\ OpaqueWrite(last.effect)
  /\ LookupField(PreState(last.effect), "o", 5) = "v1"
  /\ last.pre = empty_state

(***************************************************************************)
(* C18: element stores that truncate.                                      *)
(***************************************************************************)
Truncating(node) == graph[node].rep \in {"kWord8", "kWord16", "kWord32", "kWord64", "kFloat32"}

\* The last reduction was of a StoreElement that has a pre-state and is not
\* redundant.
StoreElementReduced ==
  /\ last.op = "StoreElement"
  /\ last.pre.id # 0
  /\ last.kind # "Replace"

\* The element facts of the pre-state that the store's object and index may
\* alias.
MayAliasedElementFacts(node, state) ==
  {f \in StateElementFacts(state) :
     MayAlias(graph[node].object, f.object) /\ MayAlias(graph[node].index, f.index)}

\* C18: a StoreElement(object, index, new_value) that is not redundant kills
\* every element fact whose object may alias object and whose index may alias
\* index, and records (object, index) -> new_value only for Float64, Simd128,
\* TaggedSigned, TaggedPointer and Tagged: after a store with Word8, Word16,
\* Word32, Word64 or Float32, LookupElement(object, index) is none, and a
\* LoadElement(object, index) that follows is not replaced by new_value.
TruncatingElementStores ==
  /\ StoreElementReduced =>
       /\ MayAliasedElementFacts(last.node, last.pre) \cap StateElementFacts(Get(last.node)) = {}
       /\ IF Truncating(last.node)
            THEN /\ LookupElement(Get(last.node), graph[last.node].object,
                                  graph[last.node].index) = NULL
                 /\ StateElementFacts(Get(last.node)) \subseteq StateElementFacts(last.pre)
            ELSE LookupElement(Get(last.node), graph[last.node].object,
                               graph[last.node].index) = graph[last.node].value
  /\ (/\ last.op = "LoadElement"
      /\ last.effect \in DOMAIN graph
      /\ graph[last.effect].op = "StoreElement"
      /\ Truncating(last.effect)
      /\ last.pre.id # 0
      /\ graph[last.effect].object = graph[last.node].object
      /\ graph[last.effect].index = graph[last.node].index)
       => ~(last.kind = "Replace" /\ last.replacement = graph[last.effect].value)

\* A Word8 store to element i of o after a store that recorded element j of
\* o2 (both may alias): the fact is gone and nothing is recorded for (o, i).
TruncatingElementStoresWitness ==
  /\ StoreElementReduced
  /\ last.kind = "Changed"
  /\ graph[last.node].rep = "kWord8"
  /\ MayAliasedElementFacts(last.node, last.pre) # {}
  /\ StateElementFacts(Get(last.node)) = {}
  /\ LookupElement(last.pre, "o2", "j") = "v1"

(***************************************************************************)
(* SpecAlias: QueryAlias applied to pairs of nodes.  lat holds the pair,   *)
(* the answer, and the answers for the pair with a FinishRegion operand    *)
(* replaced by its first input.                                            *)
(***************************************************************************)
AliasLat(a, b, done, result, left, right) ==
  [op |-> "alias", a |-> a, b |-> b, done |-> done, result |-> result,
   left |-> left, right |-> right]

InitAlias ==
  /\ graph = Chain(<<>>)
  /\ node_states = NoTable(graph)
  /\ zone = 2
  /\ last = NoLast
  /\ lat \in {AliasLat(a, b, FALSE, "none", "none", "none") : a \in ValueNodes, b \in ValueNodes}

\* The FinishRegion operand replaced by its first input.
Unwrapped(n) == IF Opcode(n) = "FinishRegion" THEN InputAt0(n) ELSE n

DoQueryAlias ==
  /\ lat.op = "alias"
  /\ ~lat.done
  /\ lat' = AliasLat(lat.a, lat.b, TRUE, QueryAlias(lat.a, lat.b),
                     QueryAlias(Unwrapped(lat.a), lat.b), QueryAlias(lat.a, Unwrapped(lat.b)))
  /\ UNCHANGED <<graph, node_states, zone, last>>

NextAlias == DoQueryAlias

SpecAlias == InitAlias /\ [][NextAlias]_vars

\* C19: for two nodes with overlapping static types, if either one is a
\* FinishRegion then the alias answer is the answer for the pair with that
\* FinishRegion replaced by its first input, whatever the opcode of the other
\* operand; so FinishRegion(x) and x must alias.
FinishRegionRule ==
  (lat.op = "alias" /\ lat.done /\ Maybe(TypeOf(lat.a), TypeOf(lat.b))) =>
    /\ lat.result = lat.left
    /\ lat.result = lat.right
    /\ (Opcode(lat.a) = "FinishRegion" /\ InputAt0(lat.a) = lat.b) => lat.result = kMustAlias

(***************************************************************************)
(* SpecWalk: the while loop of ComputeLoopState, one iteration a step, on  *)
(* an outer loop with two back edges that holds an inner loop.  lat holds  *)
(* the phi, the queue, the visited set, how often each node was processed, *)
(* the state, and whether the function has returned.                       *)
(***************************************************************************)
\* start -> n1 -> phi -> b1 -> iphi -> b2 -> (b3 | b4) -> phi, and
\* iphi -> c1 -> iphi: b3 and b4 are the back edges of the outer loop, c1 is
\* the body of the inner loop.
NestedLoop(x1, x2, x3, x4, x5) ==
  [start |-> StartOp,
   n1 |-> [StoreFieldOp("o", "kTagged", 40, "v1") EXCEPT !.eff = <<"start">>],
   phi |-> EffectPhiOp("Loop", <<"n1", "b3", "b4">>),
   b1 |-> [x1 EXCEPT !.eff = <<"phi">>],
   iphi |-> EffectPhiOp("Loop", <<"b1", "c1">>),
   c1 |-> [x2 EXCEPT !.eff = <<"iphi">>],
   b2 |-> [x3 EXCEPT !.eff = <<"iphi">>],
   b3 |-> [x4 EXCEPT !.eff = <<"b2">>],
   b4 |-> [x5 EXCEPT !.eff = <<"b2">>]]

WalkMenu ==
  {LoadFieldOp("o", 40, {20, 21}), StoreFieldOp("o2", "kTagged", 56, "v2"),
   StoreElementOp("o", "j", "v2", "kTagged"), OtherOp(FALSE)}

WalkGraphs ==
  {NestedLoop(x1, x2, x3, x4, x5) :
     x1 \in WalkMenu, x2 \in WalkMenu, x3 \in WalkMenu, x4 \in WalkMenu, x5 \in WalkMenu}

\* The state the walk starts from: slot 5 of o, slot 7 of o and element i of o.
WalkEntryState ==
  AddElementZ(AddFieldZ(AddFieldZ([p |-> empty_state, z |-> 2], "o", 5, "v1"), "o", 7, "v1"),
              "o", "i", "v1")

WalkLat(node, queue, visited, count, state, done) ==
  [op |-> "walk", node |-> node, queue |-> queue, visited |-> visited, count |-> count,
   state |-> state, done |-> done]

\* visited.insert(node); queue.push(node->InputAt(i)) for the inputs but the
\* first.
WalkStartUnvisited(node) ==
  WalkLat(node, Tail(graph[node].eff), {}, [m \in DOMAIN graph |-> 0], WalkEntryState, FALSE)

WalkStart(node) ==
  WalkLat(node, Tail(graph[node].eff), {node}, [m \in DOMAIN graph |-> 0], WalkEntryState,
          FALSE)

InitWalk ==
  /\ graph \in WalkGraphs
  /\ node_states = NoTable(graph)
  /\ last = NoLast
  /\ lat \in {WalkStart(node) : node \in {"phi", "iphi"}}
  /\ zone = lat.state.z

Walking == lat.op = "walk" /\ ~lat.done

WalkTo(queue, visited, count, state, done) ==
  /\ lat' = WalkLat(lat.node, queue, visited, count, state, done)
  /\ zone' = state.z
  /\ UNCHANGED <<graph, node_states, last>>

\* The front of the queue was visited already.
WalkSkip ==
  /\ Walking
  /\ lat.queue # <<>>
  /\ Head(lat.queue) \in lat.visited
  /\ WalkTo(Tail(lat.queue), lat.visited, lat.count, lat.state, FALSE)

\* The front of the queue is a write that is not understood: return
\* empty_state().
WalkBail ==
  /\ Walking
  /\ lat.queue # <<>>
  /\ Head(lat.queue) \notin lat.visited
  /\ LoopBails(Head(lat.queue))
  /\ WalkTo(Tail(lat.queue), lat.visited \cup {Head(lat.queue)},
            [lat.count EXCEPT ![Head(lat.queue)] = @ + 1],
            [p |-> empty_state, z |-> lat.state.z], TRUE)

\* The front of the queue is processed and its effect inputs are pushed.
WalkProcess ==
  /\ Walking
  /\ lat.queue # <<>>
  /\ Head(lat.queue) \notin lat.visited
  /\ ~LoopBails(Head(lat.queue))
  /\ WalkTo(Tail(lat.queue) \o graph[Head(lat.queue)].eff,
            lat.visited \cup {Head(lat.queue)},
            [lat.count EXCEPT ![Head(lat.queue)] = @ + 1],
            LoopKill(Head(lat.queue), lat.state), FALSE)

\* The queue is empty: return state.
WalkReturn ==
  /\ Walking
  /\ lat.queue = <<>>
  /\ WalkTo(lat.queue, lat.visited, lat.count, lat.state, TRUE)

NextWalk == WalkSkip \/ WalkBail \/ WalkProcess \/ WalkReturn

\* The loop runs on until the function returns.
SpecWalk == InitWalk /\ [][NextWalk]_vars /\ WF_vars(NextWalk)

\* The nodes reachable backwards along effect edges from the nodes of
\* frontier without passing through phi.
RECURSIVE BackwardsFrom(_, _, _)
BackwardsFrom(frontier, seen, phi) ==
  IF frontier \subseteq seen \cup {phi} THEN seen
  ELSE BackwardsFrom(UNION {{graph[m].eff[x] : x \in DOMAIN graph[m].eff} :
                              m \in frontier \ (seen \cup {phi})},
                     seen \cup (frontier \ {phi}), phi)

LoopBodyOf(phi) == BackwardsFrom({graph[phi].eff[x] : x \in 2..Len(graph[phi].eff)}, {}, phi)

\* No node is processed twice, no node outside the body of the loop is
\* visited, so none before the phi; a walk that returned the state visited
\* the whole body, and its result is the one of ComputeLoopState.
WalkWithinLoop ==
  lat.op = "walk" =>
    /\ \A m \in DOMAIN graph : lat.count[m] <= 1
    /\ lat.count[lat.node] = 0
    /\ lat.visited \subseteq LoopBodyOf(lat.node) \cup {lat.node}
    /\ graph[lat.node].eff[1] \notin lat.visited
    /\ "start" \notin lat.visited
    /\ lat.done =>
         /\ lat.state.p = ComputeLoopState(lat.node, WalkEntryState.p, WalkEntryState.z).p
         /\ lat.state.p # empty_state => lat.visited = LoopBodyOf(lat.node) \cup {lat.node}

\* C20: ComputeLoopState terminates on every finite effect graph, nested
\* loops and bodies with several back edges included; it processes each
\* effect node reachable backwards from the non-entry inputs of the loop phi
\* at most once and never walks past the loop phi itself.
ComputeLoopStateTerminates == []WalkWithinLoop /\ <>(lat.op = "walk" /\ lat.done)

\* The walk of the outer loop returned its state after it processed both
\* back edges, the inner phi and the inner body, each once.
ComputeLoopStateTerminatesWitness ==
  /\ lat.op = "walk"
  /\ lat.done
  /\ lat.node = "phi"
  /\ lat.state.p # empty_state
  /\ lat.visited = {"phi", "b1", "iphi", "c1", "b2", "b3", "b4"}
  /\ \A m \in lat.visited \ {"phi"} : lat.count[m] = 1
  /\ LookupField(lat.state.p, "o", 5) = "v1"
  /\ LookupField(lat.state.p, "o", 7) = NULL

(***************************************************************************)
(* C21: recorded states are not changed.  An object is its id: an object   *)
(* changed in place shows as a recorded state, ring or field with the id   *)
(* of one recorded before and other contents.                              *)
(***************************************************************************)
\* The states, rings and fields that a table holds.
RecordedStates(table) == {table[m] : m \in {n \in DOMAIN table : table[n].id # 0}}

RecordedRings(table) ==
  {s.elements : s \in {t \in RecordedStates(table) : t.elements.id # 0}}

RecordedFields(table) ==
  UNION {{s.fields[x] : x \in {y \in FieldIndices : s.fields[y].id # 0}} :
           s \in RecordedStates(table)}

\* Every object of before that is in after has the contents it had.
Unchanged(before, after) == \A b \in before : \A c \in after : c.id = b.id => c = b

\* C21: no reduction changes the facts of a state already recorded in the
\* per-node table for another node; reducing an EffectPhi over a Merge, which
\* merges in place, changes only a fresh copy and leaves the recorded states
\* of its inputs with the facts they had.
PublishedStatesImmutable ==
  [][/\ \A m \in DOMAIN node_states : m # last'.node => node_states'[m] = node_states[m]
     /\ Unchanged(RecordedStates(node_states), RecordedStates(node_states'))
     /\ Unchanged(RecordedRings(node_states), RecordedRings(node_states'))
     /\ Unchanged(RecordedFields(node_states), RecordedFields(node_states'))]_vars

\* An EffectPhi over a Merge recorded a state with fewer facts than its first
\* input's, which is another object than the input's state; the input's state
\* is the one it was.
PublishedStatesImmutableWitness ==
  /\ MergePhiReduced
  /\ last.kind = "Changed"
  /\ Get(graph[last.node].eff[1]) = last.pre
  /\ Get(last.node).id # last.pre.id
  /\ StateFieldFacts(Get(last.node)) # StateFieldFacts(last.pre)
  /\ StateFieldFacts(Get(last.node)) \subseteq StateFieldFacts(last.pre)

(***************************************************************************)
(* C22: no two facts for one key.                                          *)
(***************************************************************************)
NoDuplicateElements(this) ==
  \A x \in ElementIndices : \A y \in ElementIndices :
    (x # y /\ this.elements[x].object # NULL /\ this.elements[y].object # NULL) =>
      ~(/\ MustAlias(this.elements[x].object, this.elements[y].object)
        /\ MustAlias(this.elements[x].index, this.elements[y].index))

NoDuplicatePairs(this) ==
  \A pair \in this.info : \A other \in this.info :
    pair # other => ~MustAlias(pair[1], other[1])

\* C22: in every reachable state no AbstractElements ring holds two non-empty
\* entries whose objects must alias and whose indices must alias, and no
\* AbstractField holds two entries whose objects must alias; also after a
\* LoadField, LoadElement or CheckMaps that finds a known value, does not
\* replace itself and records a new fact for the same key.
NoDuplicateFacts ==
  \A m \in DOMAIN node_states :
    /\ NoDuplicateElements(node_states[m].elements)
    /\ \A x \in FieldIndices : NoDuplicatePairs(node_states[m].fields[x])

\* A LoadElement found a value for its key in its pre-state, was not replaced,
\* and recorded itself for the key: the ring holds the one fact.
NoDuplicateFactsWitness ==
  /\ last.op = "LoadElement"
  /\ last.kind = "Changed"
  /\ LookupElement(last.pre, graph[last.node].object, graph[last.node].index) = "v2"
  /\ LookupElement(Get(last.node), graph[last.node].object, graph[last.node].index) = last.node
  /\ Cardinality(StateElementFacts(Get(last.node))) = 1

(***************************************************************************)
(* The worklist driver.  Every node starts marked; the driver takes a      *)
(* marked node, calls Reduce on it, and re-marks the effect users of a     *)
(* node that reported Changed.  A Replace is applied to the graph and the  *)
(* users of the replaced node are re-marked.  lat holds the marked nodes,  *)
(* the number of Changed reports per node, the nodes that were reduced     *)
(* again when they had a recorded state, and whether the graph was         *)
(* rewritten.                                                              *)
(***************************************************************************)
DriverLat(worklist, reports, revisited, rewritten) ==
  [op |-> "driver", worklist |-> worklist, reports |-> reports,
   revisited |-> revisited, rewritten |-> rewritten]

\* Loops after two nodes, loops whose body loads the object it stores to, and
\* diamonds followed by a load.
DriverLoopGraphs ==
  {Loop(pre, body) : pre \in {p \in OpSeqs(LoopPreMenu, 2) : Len(p) = 2},
                     body \in OpSeqs(LoopBodyMenu, MaxDriverBody)}

DriverRewrittenLoopGraphs ==
  {Loop(<<StoreFieldOp("o2", "kTagged", 40, "a"), StoreFieldOp("o", "kTagged", 56, "v2")>>,
        <<LoadFieldOp("o2", 40, {1, 2}), body>>) : body \in OrderBodyMenu}

DriverGraphs == DriverLoopGraphs \cup DriverRewrittenLoopGraphs \cup TailGraphs

InitDriver ==
  /\ graph \in DriverGraphs
  /\ node_states = NoTable(graph)
  /\ zone = 2
  /\ last = NoLast
  /\ lat = DriverLat(DOMAIN graph, [m \in DOMAIN graph |-> 0], {}, FALSE)

\* The live nodes that have node as an input.
Users(g, node) ==
  {m \in DOMAIN g :
     /\ ~g[m].removed
     /\ \/ node \in {g[m].object, g[m].index, g[m].value}
        \/ \E x \in DOMAIN g[m].maps : g[m].maps[x] = node
        \/ \E x \in DOMAIN g[m].eff : g[m].eff[x] = node}

Marked(node, r) ==
  (lat.worklist \ {node}) \cup
    (CASE r.kind = "Changed" -> EffectUsers(graph, node)
       [] r.kind = "Replace" -> Users(graph, node) \ {node}
       [] OTHER -> {})

DriverApply(node, r) ==
  /\ node_states' = IF r.set THEN [node_states EXCEPT ![node] = r.state] ELSE node_states
  /\ zone' = IF r.set THEN r.z ELSE zone
  /\ graph' = IF r.kind = "Replace"
                THEN ReplaceUses(graph, node, r.replacement,
                                 IF r.rwv THEN Incoming(node) ELSE r.replacement)
                ELSE graph
  /\ lat' = DriverLat(Marked(node, r),
                      [m \in DOMAIN graph |->
                         IF m = node /\ r.kind = "Changed"
                           THEN lat.reports[m] + 1 ELSE lat.reports[m]],
                      IF Get(node).id # 0 THEN lat.revisited \cup {node} ELSE lat.revisited,
                      lat.rewritten \/ r.kind = "Replace")
  /\ UNCHANGED last

DriverVisit ==
  /\ lat.op = "driver"
  /\ \E node \in lat.worklist :
       /\ lat.reports[node] < MaxReports
       /\ DriverApply(node, Reduce(node))

NextDriver == DriverVisit

\* The driver runs as long as a node is marked.
SpecDriver == InitDriver /\ [][NextDriver]_vars /\ WF_vars(NextDriver)

DriverDone == lat.op = "driver" /\ lat.worklist = {}

\* C23: on a graph that is not rewritten between visits, the driver that
\* re-reduces the effect users of every node that reported Changed comes to
\* have no marked node, no handler reports Changed then, and each node
\* reported Changed at most once.
FixedPointReached ==
  /\ [](lat.rewritten \/ \A m \in DOMAIN lat.reports : lat.reports[m] <= 1)
  /\ []((DriverDone /\ ~lat.rewritten) => FixedPoint)
  /\ <>(lat.rewritten \/ DriverDone)

\* The driver is done on a loop that was not rewritten: the phi of the loop
\* was reduced again after its body had reported Changed, when it had recorded
\* a state that has facts, and the phi and the body reported Changed once.
FixedPointReachedWitness ==
  /\ DriverDone
  /\ ~lat.rewritten
  /\ "phi" \in lat.revisited
  /\ graph["phi"].ctrl = "Loop"
  /\ lat.reports["phi"] = 1
  /\ lat.reports["b1"] = 1
  /\ StateFieldFacts(Get("phi")) # {}
  /\ ~StateEquals(Get("phi"), Get(graph["phi"].eff[1]))

(***************************************************************************)
(* C24: the state table under Replace and Dead.                            *)
(***************************************************************************)
\* C24: a reduction that returns Replace and a reduction of a Dead node leave
\* the per-node state table as it was, so that they record nothing for the
\* node; and no reduction makes the entry of a node that has a recorded state
\* absent again.
StateTableDiscipline ==
  [][/\ (last'.kind = "Replace" \/ last'.op = "Dead") => node_states' = node_states
     /\ \A m \in DOMAIN node_states : node_states[m].id # 0 => node_states'[m].id # 0]_vars

\* A node was reduced to Replace when other nodes had recorded states: it has
\* no entry, and its effect input still has the state the handler read.
StateTableDisciplineWitness ==
  /\ last.kind = "Replace"
  /\ last.op = "StoreElement"
  /\ Get(last.node).id = 0
  /\ last.pre.id # 0
  /\ Get(last.effect) = last.pre
  /\ StateElementFacts(last.pre) # {}

====
